---- MODULE Spec2Model ----
(***************************************************************************)
(* Model of the shopee-livestream-bot orchestration core:                  *)
(*   - livestream.Monitor (Start / monitorStream / checkProductAvailability)*)
(*     supervised by an errgroup, one goroutine per stream URL;            *)
(*   - purchase.Executor (ExecutePurchase / AddToCart / RetryPurchase);    *)
(*   - auth.Manager (Login / LoadSession / ValidateSession / ManualLogin / *)
(*     PerformLogin / SaveSession) and main's startup and shutdown.        *)
(* A driver call (chromedp.Run) is a step whose outcome is chosen when it  *)
(* returns; a task's pc names the call or wait it is currently inside.     *)
(***************************************************************************)
EXTENDS Integers, Sequences, FiniteSets, TLC

\* ---------------------------------------------------------------- bounds
\* number of configured livestream URLs (cfg.Shopee.LivestreamURLs)
NumStreams == 2
\* largest purchase.max_retries / purchase.retry_delay a configuration holds
MaxRetriesBound == 4
MaxRetryDelay == 2
\* longest time, in seconds, the driver calls of one login poll take together
MaxCallTime == 2
\* cap of the history counter pollsAfterCancel
MaxPollsAfterCancel == 2
\* largest number of cookies the driver reports
MaxCookies == 2
\* largest number of seconds after which the control becomes visible
MaxVisibleTime == 6
\* largest number the cart-count indicator shows
MaxCartCount == 2
\* largest monitoring.check_interval, in seconds, a config.yaml holds
MaxCheckInterval == 1

\* ------------------------------------------------------ program constants
\* browser.NavigateWithRetry(m.ctx, streamURL, 3)
NavMaxRetries == 3
\* len(selectors) in checkProductAvailability
NumSelectors == 5
\* Config.Validate: MaxRetries <= 0 is replaced by 3
DefaultMaxRetries == 3
\* ManualLogin: maxWaitTime := 5 * time.Minute, in seconds
MaxWaitTime == 300
\* ManualLogin: checkInterval := 2 * time.Second, in seconds
CheckInterval == 2

Streams == 1..NumStreams

VARIABLES
    \* ---- livestream.Monitor / errgroup / main
    rootCancelled,   \* main's cancel() was called: ctx and browserCtx are done
    groupCancelled,  \* the errgroup's derived ctx was cancelled by the group
    groupErr,        \* errgroup.Group.err (set once, by errOnce)
    startPc,         \* Monitor.Start: "idle", "waiting" (in g.Wait), "returned"
    startErr,        \* value returned by Monitor.Start
    monitorLogged,   \* main logged "Monitor stopped with error"
    mainPc,          \* main: "login", "fatal", "startmonitor", "waitsignal",
                     \* "cleanup", "stopped"; "crashed" after a panic
    pc,              \* per stream task: where monitorStream is
    navI,            \* per stream task: loop index i of NavigateWithRetry
    selIdx,          \* per stream task: index of the selector being evaluated
    tickPending,     \* per stream task: ticker.C holds a buffered tick
    taskErr,         \* per stream task: value returned by monitorStream
    \* ---- history of the monitor (read by the properties only)
    cancelInLoop,    \* ctx became done while the task waited for the next tick
    firstFail,       \* stream of the first task that returned a navigation error
    execCalls,       \* ExecutePurchase calls made by the check in progress
    navWait,         \* per stream task: seconds of the backoff sleep in progress
    prevOutcome,     \* "failed" once a purchase of stream 1 on the first selector failed
    \* ---- the browser tab of browserCtx, followed only by the specification
    \* of the stream pages
    tabPage,         \* the stream whose URL the tab shows, 0 for another page
    \* ---- configuration (config.Config after Load / Validate)
    maxRetries,      \* cfg.Purchase.MaxRetries
    retryDelay,      \* cfg.Purchase.RetryDelay, in seconds
    checkInterval,   \* cfg.Monitoring.CheckInterval, in seconds
    \* ---- purchase.Executor.RetryPurchase (one call)
    rpPc,            \* "idle", "sleep", "exec", "settle", "done"
    rpI,             \* loop index i
    rpSelector,      \* productSelector
    rpAttempts,      \* ExecutePurchase calls that have returned
    rpFailures,      \* ExecutePurchase calls that returned an error
    rpWaits,         \* the waitTime of every time.Sleep so far, in seconds
    rpLastErr,       \* lastErr: the attempt whose error it is, 0 for nil
    rpResult,        \* value returned by RetryPurchase
    \* ---- auth.Manager.ManualLogin (one call)
    mlPc,            \* "idle", "navigate", "navsleep", "polling", "done"
    mlNavI,          \* loop index i of NavigateWithRetry
    callTime,        \* seconds the driver calls of one poll take during this call
    elapsed,         \* time.Since(startTime), in seconds
    polls,           \* iterations of the poll loop that have run
    mlResult,        \* value returned by ManualLogin
    isLoggedIn,      \* m.isLoggedIn
    cookies,         \* m.cookies
    sessionFile,     \* content of data/cookies/session.json, <<>> when absent
    driverCookies,   \* the browser's cookie store as of the Manager's last cookie call
    \* ---- history of ManualLogin (read by the properties only)
    lastPoll,        \* what the driver reported in the last poll
    lastSave,        \* outcome of the SaveSession call, "none" without one
    onlyLoginBefore, \* every poll before the last one reported the login URL
    pollsAfterCancel, \* polls run since the caller's context was cancelled
    pollErrors,      \* "seen" once a poll failed to read the URL or the markers, "untracked" where not followed
    \* ---- auth.Manager.Login (one call) and the credentials of the configuration
    hasUsername,     \* cfg.Shopee.Credentials.Username != ""
    hasPassword,     \* cfg.Shopee.Credentials.Password != ""
    lgPc,            \* where Login is: "idle", "setcookies", "vnavigate", ...
    lgOp,            \* the Manager method in progress or last called
    lgLoc,           \* the URL PerformLogin read last in this call
    lgNavI,          \* loop index i of the NavigateWithRetry call in progress
    lgResult,        \* value returned by Login
    \* ---- history of Login (read by the properties only)
    loadSaw,         \* what LoadSession found in the session file
    loadResult,      \* value returned by LoadSession, "none" before it returns
    validResult,     \* value returned by ValidateSession, "none" without a call
    manualCalls,     \* calls of ManualLogin made by Login
    performCalls,    \* calls of PerformLogin made by Login
    \* ---- one call of a method outside the poll loop: purchase.Executor
    \* (ExecutePurchase, GetCartItemCount, ClearCart) and livestream.Monitor
    \* (CheckFlashSale, GetProductInfo)
    autoCheckout,    \* purchase.auto_checkout of config.yaml
    execBuild,       \* the definition of ExecutePurchase that is built
    exOp,            \* the method called, "none" before a call
    exPc,            \* where the call is: "idle", the step in progress, "done"
    exSelector,      \* productSelector
    exErr,           \* the error returned
    exValue,         \* the value returned beside the error
    \* ---- history of the call (read by the properties only)
    exSteps,         \* the driver actions the call has started, in order
    exElapsed,       \* seconds spent under the deadline of AddToCart
    exSlept          \* milliseconds of time.Sleep made by the call

monitorVars == <<rootCancelled, groupCancelled, groupErr, startPc, startErr,
                 monitorLogged, mainPc, pc, navI, selIdx, tickPending, taskErr,
                 cancelInLoop, firstFail, execCalls, navWait, prevOutcome, tabPage>>
cfgVars == <<maxRetries, retryDelay, checkInterval>>
executorVars == <<autoCheckout, execBuild, exOp, exPc, exSelector, exErr, exValue,
                  exSteps, exElapsed, exSlept>>
retryVars == <<rpPc, rpI, rpSelector, rpAttempts, rpFailures, rpWaits, rpLastErr,
               rpResult>>
loginVars == <<mlPc, mlNavI, callTime, elapsed, polls, mlResult, isLoggedIn, cookies,
               sessionFile, driverCookies, lastPoll, lastSave, onlyLoginBefore, pollsAfterCancel, pollErrors>>
sessionVars == <<hasUsername, hasPassword, lgOp, lgLoc, lgPc, lgNavI, lgResult, loadSaw, loadResult,
                 validResult, manualCalls, performCalls>>
nonMonitorVars == <<cfgVars, executorVars, retryVars, loginVars, sessionVars>>

vars == <<monitorVars, cfgVars, executorVars, retryVars, loginVars, sessionVars>>

\* ---------------------------------------------------------------- errors
Err(kind, stream, cause) == [kind |-> kind, stream |-> stream, cause |-> cause]
NoErr == Err("nil", 0, "nil")
\* ctx.Err() of a cancelled context
Canceled == Err("canceled", 0, "nil")
\* fmt.Errorf("failed to navigate to stream %d: %w", streamID, err)
NavErr(i) == Err("navigate", i, "driver")
\* fmt.Errorf("monitoring error: %w", err)
MonitoringErr(e) == Err("monitoring", e.stream, e.kind)

\* ------------------------------------------------------- driver outcomes
\* ctx.Done() of the context handed to monitorStream (errgroup.WithContext(ctx))
CtxDone == rootCancelled \/ groupCancelled
\* m.ctx / e.ctx is browserCtx, a child of main's ctx: once main cancelled,
\* chromedp.Run returns the context's error
DriverOutcomes == IF rootCancelled THEN {"fail"} ELSE {"ok", "fail"}
EvalOutcomes == IF rootCancelled THEN {"err"} ELSE {"err", "absent", "present"}
\* the chromedp context every stream task and the executor issue calls on
BrowserCtxOf(i) == "browserCtx"
\* pcs at which the task is inside chromedp.Run
DriverPcs == {"navigate", "evaluate", "purchase"}
InDriverCall(i) == pc[i] \in DriverPcs
\* pcs at which the task's ticker exists (between NewTicker and ticker.Stop)
LoopPcs == {"select", "parked", "stopping", "evaluate", "purchase", "settle",
            "purchasefailed", "purchaseok"}

\* ------------------------------------------------------------- errgroup
\* errOnce.Do(func() { g.err = err; cancel() }) -- only the first error is kept
GroupRecordLast(cur, e) == e
GroupRecord(cur, e) == IF cur = NoErr THEN e ELSE cur
\* g.Wait(): wg.Wait() returns when every goroutine has returned
WaitReadyFirstError == groupErr # NoErr \/ \A i \in Streams : pc[i] = "stopped"
WaitReady == \A i \in Streams : pc[i] = "stopped"

\* a cancellation of ctx wakes every goroutine parked in the select with the
\* ctx.Done() case chosen
WakeParked(p) == [j \in Streams |-> IF p[j] = "parked" THEN "stopping" ELSE p[j]]
\* history: tasks that were waiting for the next tick when ctx became done
MarkWaiting(p, c) == [j \in Streams |-> c[j] \/ p[j] \in {"select", "parked"}]

\* main is between launching the monitor goroutine and its return: the
\* process, and with it every goroutine, is running
ProcessRunning == mainPc \in {"waitsignal", "cleanup"}

\* the tab is not followed
Untracked == 0 - 1

InitMonitorWith(page) ==
    /\ rootCancelled = FALSE
    /\ groupCancelled = FALSE
    /\ groupErr = NoErr
    /\ startPc = "idle"
    /\ startErr = NoErr
    /\ monitorLogged = FALSE
    /\ pc = [i \in Streams |-> "idle"]
    /\ navI = [i \in Streams |-> 0]
    /\ selIdx = [i \in Streams |-> 0]
    /\ tickPending = [i \in Streams |-> FALSE]
    /\ taskErr = [i \in Streams |-> NoErr]
    /\ cancelInLoop = [i \in Streams |-> FALSE]
    /\ firstFail = 0
    /\ execCalls = [i \in Streams |-> 0]
    /\ navWait = [i \in Streams |-> 0]
    /\ prevOutcome = "none"
    /\ tabPage = page

InitMonitor == InitMonitorWith(Untracked)

\* Monitor.Start up to g.Wait(): one goroutine per stream, each entering
\* NavigateWithRetry (first attempt in flight)
MonitorStart ==
    /\ ProcessRunning
    /\ startPc = "idle"
    /\ startPc' = "waiting"
    /\ pc' = [i \in Streams |-> "navigate"]
    /\ UNCHANGED <<rootCancelled, groupCancelled, groupErr, startErr, monitorLogged,
                   navI, selIdx, tickPending, taskErr, cancelInLoop,
                   firstFail, execCalls>>
    /\ UNCHANGED <<navWait, prevOutcome, tabPage>>
    /\ UNCHANGED mainPc
    /\ UNCHANGED nonMonitorVars

\* main: <-sigChan; cancel(); main goes on to time.Sleep(2 * time.Second)
RootCancel ==
    /\ mainPc = "waitsignal"
    /\ ~rootCancelled
    /\ rootCancelled' = TRUE
    /\ mainPc' = "cleanup"
    /\ pc' = WakeParked(pc)
    /\ cancelInLoop' = IF CtxDone THEN cancelInLoop ELSE MarkWaiting(pc, cancelInLoop)
    /\ UNCHANGED <<groupCancelled, groupErr, startPc, startErr, monitorLogged,
                   navI, selIdx, tickPending, taskErr,
                   firstFail, execCalls>>
    /\ UNCHANGED <<navWait, prevOutcome, tabPage>>
    /\ UNCHANGED nonMonitorVars

\* monitorStream returns e: the errgroup goroutine records it (first error
\* wins) and cancels the group's ctx
TaskReturn(i, e) ==
    /\ taskErr' = [taskErr EXCEPT ![i] = e]
    /\ groupErr' = GroupRecord(groupErr, e)
    /\ groupCancelled' = (groupCancelled \/ e # NoErr)
    /\ pc' = [WakeParked(pc) EXCEPT ![i] = "stopped"]
    /\ cancelInLoop' = IF CtxDone THEN cancelInLoop
                       ELSE [MarkWaiting(pc, cancelInLoop) EXCEPT ![i] = cancelInLoop[i]]
    /\ firstFail' = IF firstFail = 0 /\ e.kind = "navigate" THEN i ELSE firstFail
    /\ selIdx' = [selIdx EXCEPT ![i] = 0]
    /\ tickPending' = [tickPending EXCEPT ![i] = FALSE]

\* chromedp.Navigate(streamURL) succeeded for stream i: every task navigates
\* m.ctx, the one tab of browserCtx, which now shows the page of stream i
ShowPage(p, i) == IF p = Untracked THEN p ELSE i

\* time.Sleep(time.Duration(i+1) * time.Second) after failed attempt i
NavBackoffConstant(i) == 1
NavBackoff(i) == i + 1

\* the value viper.Unmarshal stores in the int field CheckInterval for a
\* monitoring.check_interval of h half seconds (0.5 is h = 1; a missing key
\* is h = 0): the number is converted to int, which drops the fraction
DecodeCheckInterval(h) == IF h >= 0 THEN h \div 2 ELSE 0 - ((0 - h) \div 2)
\* GetCheckInterval: time.Duration(c.CheckInterval) * time.Second, in ms
GetCheckInterval(c) == c * 1000
\* time.NewTicker(d) panics if d <= 0
NewTickerPanics(d) == d <= 0

\* one attempt of NavigateWithRetry returns; after a success monitorStream
\* creates its ticker, and a panic of NewTicker in the goroutine ends the
\* process
NavigateReturn(i) ==
    /\ ProcessRunning
    /\ pc[i] = "navigate"
    /\ \E r \in DriverOutcomes :
         \/ /\ r = "ok"
            /\ IF NewTickerPanics(GetCheckInterval(checkInterval))
               THEN /\ pc' = [pc EXCEPT ![i] = "panicked"]
                    /\ mainPc' = "crashed"
               ELSE /\ pc' = [pc EXCEPT ![i] = "select"]
                    /\ UNCHANGED mainPc
            /\ navI' = [navI EXCEPT ![i] = 0]
            /\ tabPage' = ShowPage(tabPage, i)
            /\ UNCHANGED <<taskErr, groupErr, groupCancelled, cancelInLoop, firstFail,
                           selIdx, tickPending, navWait>>
         \/ /\ r = "fail"
            /\ navI[i] < NavMaxRetries - 1
            /\ pc' = [pc EXCEPT ![i] = "navsleep"]
            /\ navWait' = [navWait EXCEPT ![i] = NavBackoff(navI[i])]
            /\ UNCHANGED <<navI, taskErr, groupErr, groupCancelled, cancelInLoop,
                           firstFail, selIdx, tickPending, tabPage, mainPc>>
         \/ /\ r = "fail"
            /\ navI[i] >= NavMaxRetries - 1
            /\ TaskReturn(i, NavErr(i))
            /\ UNCHANGED <<navI, navWait, tabPage, mainPc>>
    /\ UNCHANGED <<rootCancelled, startPc, startErr, monitorLogged,
                   execCalls>>
    /\ UNCHANGED prevOutcome
    /\ UNCHANGED nonMonitorVars

\* time.Sleep(time.Duration(i+1) * time.Second) is over: next attempt
NavSleepDone(i) ==
    /\ ProcessRunning
    /\ pc[i] = "navsleep"
    /\ pc' = [pc EXCEPT ![i] = "navigate"]
    /\ navI' = [navI EXCEPT ![i] = navI[i] + 1]
    /\ navWait' = [navWait EXCEPT ![i] = 0]
    /\ UNCHANGED <<rootCancelled, groupCancelled, groupErr, startPc, startErr,
                   monitorLogged, selIdx, tickPending, taskErr, cancelInLoop, firstFail, execCalls>>
    /\ UNCHANGED <<prevOutcome, tabPage>>
    /\ UNCHANGED mainPc
    /\ UNCHANGED nonMonitorVars

\* the runtime timer fires: a goroutine parked in the select receives the tick
\* directly, otherwise the tick is buffered (capacity 1) or dropped
Tick(i) ==
    /\ ProcessRunning
    /\ pc[i] \in LoopPcs
    /\ \/ /\ pc[i] = "parked"
          /\ pc' = [pc EXCEPT ![i] = "evaluate"]
          /\ selIdx' = [selIdx EXCEPT ![i] = 1]
          /\ UNCHANGED tickPending
       \/ /\ pc[i] # "parked"
          /\ ~tickPending[i]
          /\ tickPending' = [tickPending EXCEPT ![i] = TRUE]
          /\ UNCHANGED <<pc, selIdx>>
    /\ UNCHANGED <<rootCancelled, groupCancelled, groupErr, startPc, startErr,
                   monitorLogged, navI, taskErr, cancelInLoop,
                   firstFail, execCalls>>
    /\ UNCHANGED <<navWait, prevOutcome, tabPage>>
    /\ UNCHANGED mainPc
    /\ UNCHANGED nonMonitorVars

\* select, case <-ctx.Done(): chosen when ready (at random when the tick is
\* ready too)
SelectDone(i) ==
    /\ ProcessRunning
    /\ pc[i] = "select"
    /\ CtxDone
    /\ pc' = [pc EXCEPT ![i] = "stopping"]
    /\ UNCHANGED <<rootCancelled, groupCancelled, groupErr, startPc, startErr,
                   monitorLogged, navI, selIdx, tickPending, taskErr, cancelInLoop, firstFail, execCalls>>
    /\ UNCHANGED <<navWait, prevOutcome, tabPage>>
    /\ UNCHANGED mainPc
    /\ UNCHANGED nonMonitorVars

\* select, case <-ticker.C: chosen when a tick is buffered (at random when
\* ctx.Done() is ready too); checkProductAvailability starts with selector 1
SelectTick(i) ==
    /\ ProcessRunning
    /\ pc[i] = "select"
    /\ tickPending[i]
    /\ tickPending' = [tickPending EXCEPT ![i] = FALSE]
    /\ pc' = [pc EXCEPT ![i] = "evaluate"]
    /\ selIdx' = [selIdx EXCEPT ![i] = 1]
    /\ UNCHANGED <<rootCancelled, groupCancelled, groupErr, startPc, startErr,
                   monitorLogged, navI, taskErr, cancelInLoop,
                   firstFail, execCalls>>
    /\ UNCHANGED <<navWait, prevOutcome, tabPage>>
    /\ UNCHANGED mainPc
    /\ UNCHANGED nonMonitorVars

\* select with no case ready: the goroutine parks
SelectPark(i) ==
    /\ ProcessRunning
    /\ pc[i] = "select"
    /\ ~CtxDone
    /\ ~tickPending[i]
    /\ pc' = [pc EXCEPT ![i] = "parked"]
    /\ UNCHANGED <<rootCancelled, groupCancelled, groupErr, startPc, startErr,
                   monitorLogged, navI, selIdx, tickPending, taskErr, cancelInLoop, firstFail, execCalls>>
    /\ UNCHANGED <<navWait, prevOutcome, tabPage>>
    /\ UNCHANGED mainPc
    /\ UNCHANGED nonMonitorVars

\* return ctx.Err()
StopReturn(i) ==
    /\ ProcessRunning
    /\ pc[i] = "stopping"
    /\ TaskReturn(i, Canceled)
    /\ UNCHANGED <<rootCancelled, startPc, startErr, monitorLogged, navI,
                   execCalls>>
    /\ UNCHANGED <<navWait, prevOutcome, tabPage>>
    /\ UNCHANGED mainPc
    /\ UNCHANGED nonMonitorVars

\* chromedp.Evaluate(`!!document.querySelector(selector)`) returns
EvaluateReturn(i) ==
    /\ ProcessRunning
    /\ pc[i] = "evaluate"
    /\ \E r \in EvalOutcomes :
         \/ /\ r = "present"
            \* m.executor.ExecutePurchase(selector) -> AddToCart: WaitVisible, Click
            /\ pc' = [pc EXCEPT ![i] = "purchase"]
            /\ execCalls' = [execCalls EXCEPT ![i] = execCalls[i] + 1]
            /\ UNCHANGED selIdx
         \/ /\ r # "present"
            /\ selIdx[i] < NumSelectors
            /\ selIdx' = [selIdx EXCEPT ![i] = selIdx[i] + 1]
            /\ UNCHANGED <<pc, execCalls>>
         \/ /\ r # "present"
            /\ selIdx[i] >= NumSelectors
            /\ selIdx' = [selIdx EXCEPT ![i] = 0]
            /\ pc' = [pc EXCEPT ![i] = "select"]
            /\ UNCHANGED execCalls
    /\ UNCHANGED <<rootCancelled, groupCancelled, groupErr, startPc, startErr,
                   monitorLogged, navI, tickPending, taskErr, cancelInLoop,
                   firstFail>>
    /\ UNCHANGED <<navWait, prevOutcome, tabPage>>
    /\ UNCHANGED mainPc
    /\ UNCHANGED nonMonitorVars

\* AddToCart's chromedp.Run(WaitVisible, Click) under a 5 s timeout returns;
\* on an error ExecutePurchase returns it to checkProductAvailability
PurchaseReturn(i) ==
    /\ ProcessRunning
    /\ pc[i] = "purchase"
    /\ \E r \in DriverOutcomes :
         \/ /\ r = "ok"
            /\ pc' = [pc EXCEPT ![i] = "settle"]
         \/ /\ r = "fail"
            /\ pc' = [pc EXCEPT ![i] = "purchasefailed"]
    /\ UNCHANGED <<rootCancelled, groupCancelled, groupErr, startPc, startErr,
                   monitorLogged, navI, selIdx, tickPending, taskErr, cancelInLoop,
                   firstFail, execCalls>>
    /\ UNCHANGED <<navWait, prevOutcome, tabPage>>
    /\ UNCHANGED mainPc
    /\ UNCHANGED nonMonitorVars

\* time.Sleep(1 * time.Second) in AddToCart is over: ExecutePurchase returns nil
SettleDone(i) ==
    /\ ProcessRunning
    /\ pc[i] = "settle"
    /\ pc' = [pc EXCEPT ![i] = "purchaseok"]
    /\ UNCHANGED <<rootCancelled, groupCancelled, groupErr, startPc, startErr,
                   monitorLogged, navI, selIdx, tickPending, taskErr, cancelInLoop,
                   firstFail, execCalls>>
    /\ UNCHANGED <<navWait, prevOutcome, tabPage>>
    /\ UNCHANGED mainPc
    /\ UNCHANGED nonMonitorVars

\* where the task goes after ExecutePurchase returned with outcome o: the
\* error is only printed, checkProductAvailability returns nothing and the for
\* loop of monitorStream runs the select again
AfterPurchaseAgain(o) == IF o = "purchasefailed" THEN "purchase" ELSE "select"
AfterPurchaseStopOnFailure(o) == IF o = "purchasefailed" THEN "stopping" ELSE "select"
AfterPurchase(o) == "select"

\* checkProductAvailability prints the outcome of the purchase ("Purchase
\* failed" / "Purchase successful!") and returns; the loop goes back to select
CheckReturn(i) ==
    /\ ProcessRunning
    /\ pc[i] \in {"purchasefailed", "purchaseok"}
    /\ pc' = [pc EXCEPT ![i] = AfterPurchase(pc[i])]
    /\ selIdx' = [selIdx EXCEPT ![i] = 0]
    /\ execCalls' = [execCalls EXCEPT ![i] = 0]
    /\ prevOutcome' = IF i = 1 /\ selIdx[i] = 1 /\ pc[i] = "purchasefailed"
                      THEN "failed" ELSE prevOutcome
    /\ UNCHANGED <<rootCancelled, groupCancelled, groupErr, startPc, startErr,
                   monitorLogged, navI, tickPending, taskErr, cancelInLoop,
                   firstFail>>
    /\ UNCHANGED <<navWait, tabPage>>
    /\ UNCHANGED mainPc
    /\ UNCHANGED nonMonitorVars

\* g.Wait() returns; Start wraps a non-nil group error
StartReturn ==
    /\ ProcessRunning
    /\ startPc = "waiting"
    /\ WaitReady
    /\ startPc' = "returned"
    /\ groupCancelled' = TRUE
    /\ startErr' = IF groupErr = NoErr THEN NoErr ELSE MonitoringErr(groupErr)
    /\ UNCHANGED <<rootCancelled, groupErr, monitorLogged, pc, navI, selIdx,
                   tickPending, taskErr, cancelInLoop, firstFail,
                   execCalls>>
    /\ UNCHANGED <<navWait, prevOutcome, tabPage>>
    /\ UNCHANGED mainPc
    /\ UNCHANGED nonMonitorVars

\* what the goroutine's error branch does to main: log.Error only logs
MainOnMonitorErrorFatal(mp) == "fatal"
MainOnMonitorError(mp) == mp

\* main's goroutine: if err := monitor.Start(ctx); err != nil { log.Error(...) }
MainLogError ==
    /\ ProcessRunning
    /\ startPc = "returned"
    /\ startErr # NoErr
    /\ ~monitorLogged
    /\ monitorLogged' = TRUE
    /\ mainPc' = MainOnMonitorError(mainPc)
    /\ UNCHANGED <<rootCancelled, groupCancelled, groupErr, startPc, startErr,
                   pc, navI, selIdx, tickPending, taskErr, cancelInLoop,
                   firstFail, execCalls>>
    /\ UNCHANGED <<navWait, prevOutcome, tabPage>>
    /\ UNCHANGED nonMonitorVars

\* main: time.Sleep(2 * time.Second) is over, main returns and the process,
\* with every goroutine still running, ends with status 0
MainExit ==
    /\ mainPc = "cleanup"
    /\ mainPc' = "stopped"
    /\ UNCHANGED <<rootCancelled, groupCancelled, groupErr, startPc, startErr,
                   monitorLogged, pc, navI, selIdx, tickPending, taskErr, cancelInLoop,
                   firstFail, execCalls, navWait, prevOutcome, tabPage>>
    /\ UNCHANGED nonMonitorVars

\* ---------------------------------------------------------------- config
\* Config.Validate: if c.Purchase.MaxRetries <= 0 { c.Purchase.MaxRetries = 3 }
ValidateMaxRetries(n) == IF n <= 0 THEN DefaultMaxRetries ELSE n

\* ------------------------------------------------- Executor.RetryPurchase
RpResultOf(kind, n, last) == [kind |-> kind, n |-> n, last |-> last]
RpNone == RpResultOf("none", 0, 0)
RpOk == RpResultOf("ok", 0, 0)
\* fmt.Errorf("all %d attempts to add to cart failed: %w", maxRetries, lastErr)
RpExhausted(n, last) == RpResultOf("exhausted", n, last)

\* waitTime := retryDelay * time.Duration(i)
WaitTimeConstant(d, i) == d
WaitTime(d, i) == d * i

InitRetry ==
    /\ rpPc = "idle"
    /\ rpI = 0
    /\ rpSelector = 0
    /\ rpAttempts = 0
    /\ rpFailures = 0
    /\ rpWaits = <<>>
    /\ rpLastErr = 0
    /\ rpResult = RpNone

\* for i := 0; i < maxRetries; i++: the loop is left when the test fails,
\* which for maxRetries <= 0 is before the first attempt
RpLoopEndsAfterFirst(i, n) == i >= n /\ i > 0
RpLoopEnds(i, n) == i >= n

\* the top of the for loop with index i and lastErr last: leave the loop,
\* sleep before a retry, or call ExecutePurchase at once
RpIterate(i, last) ==
    /\ rpI' = i
    /\ rpLastErr' = last
    /\ IF RpLoopEnds(i, maxRetries)
       THEN /\ rpPc' = "done"
            /\ rpResult' = RpExhausted(maxRetries, last)
            /\ UNCHANGED rpWaits
       ELSE IF i > 0
       THEN /\ rpPc' = "sleep"
            /\ rpWaits' = Append(rpWaits, WaitTime(retryDelay, i))
            /\ UNCHANGED rpResult
       ELSE /\ rpPc' = "exec"
            /\ UNCHANGED <<rpWaits, rpResult>>

\* a caller invokes RetryPurchase(productSelector)
RetryPurchaseCall(sel) ==
    /\ rpPc = "idle"
    /\ rpSelector' = sel
    /\ RpIterate(0, 0)
    /\ UNCHANGED <<rpAttempts, rpFailures>>
    /\ UNCHANGED <<monitorVars, cfgVars, executorVars, loginVars, sessionVars>>

\* time.Sleep(waitTime) is over: ExecutePurchase -> AddToCart is called
RpSleepDone ==
    /\ rpPc = "sleep"
    /\ rpPc' = "exec"
    /\ UNCHANGED <<rpI, rpSelector, rpAttempts, rpFailures, rpWaits, rpLastErr, rpResult>>
    /\ UNCHANGED <<monitorVars, cfgVars, executorVars, loginVars, sessionVars>>

\* AddToCart's chromedp.Run(WaitVisible, Click) returns; on an error
\* ExecutePurchase returns it, lastErr = err and the loop goes on
RpAddToCartReturn ==
    /\ rpPc = "exec"
    /\ \E r \in DriverOutcomes :
         \/ /\ r = "ok"
            /\ rpPc' = "settle"
            /\ UNCHANGED <<rpI, rpAttempts, rpFailures, rpWaits, rpLastErr, rpResult>>
         \/ /\ r = "fail"
            /\ rpAttempts' = rpAttempts + 1
            /\ rpFailures' = rpFailures + 1
            /\ RpIterate(rpI + 1, rpI + 1)
    /\ UNCHANGED rpSelector
    /\ UNCHANGED <<monitorVars, cfgVars, executorVars, loginVars, sessionVars>>

\* time.Sleep(1 * time.Second) in AddToCart is over: ExecutePurchase returns
\* nil and RetryPurchase returns nil
RpSettleDone ==
    /\ rpPc = "settle"
    /\ rpPc' = "done"
    /\ rpAttempts' = rpAttempts + 1
    /\ rpResult' = RpOk
    /\ UNCHANGED <<rpI, rpSelector, rpFailures, rpWaits, rpLastErr>>
    /\ UNCHANGED <<monitorVars, cfgVars, executorVars, loginVars, sessionVars>>

\* ------------------------------------------------- Manager.ManualLogin
\* strings are sequences of path segments; "/buyer/login"
LoginPath == <<"buyer", "login">>
\* what chromedp.Location can report
DriverURLs == { <<"shopee", "buyer", "login">>,
                <<"shopee", "buyer", "login", "next">>,
                <<"shopee">>,
                <<"shopee", "user", "account">> }
\* chromedp.Run returned an error: no URL was read
LocErr == <<>>
\* var currentURL string before any chromedp.Location call
NoLoc == <<"unread">>

\* func findSubstring(s, substr string) bool
FindSubstring(s, sub) ==
    \E i \in 0..(Len(s) - Len(sub)) : SubSeq(s, i + 1, i + Len(sub)) = sub
\* func contains(s, substr string) bool
Contains(s, sub) ==
    \/ Len(s) >= Len(sub) /\ SubSeq(s, 1, Len(sub)) = sub
    \/ Len(s) > Len(sub) /\ SubSeq(s, Len(s) - Len(sub) + 1, Len(s)) = sub
    \/ Len(s) > Len(sub) /\ FindSubstring(s, sub)

LocationOutcomes == IF rootCancelled THEN {LocErr} ELSE DriverURLs \cup {LocErr}
MarkerOutcomes == IF rootCancelled THEN {"err"} ELSE {"err", "false", "true"}
\* the k-th network.Cookie of the browser, as network.GetCookies reports it;
\* expires is the expiry date, 0 for a session cookie
DriverCookie(k) ==
    [name |-> k, value |-> k, domain |-> "shopee", path |-> "/",
     httpOnly |-> (k % 2 = 1), secure |-> (k % 2 = 0), expires |-> k]
\* network.GetCookies: the cookie lists the driver can hold
DriverCookieLists == {[k \in 1..n |-> DriverCookie(k)] : n \in 0..MaxCookies}
\* the cookie the browser stores for network.SetCookie(c.Name, c.Value).
\* WithDomain(c.Domain).WithPath(c.Path).WithHTTPOnly(c.HTTPOnly).
\* WithSecure(c.Secure): no expiry is passed on, it is a session cookie
SetCookieParamsWithoutFlags(c) ==
    [name |-> c.name, value |-> c.value, domain |-> c.domain, path |-> c.path,
     httpOnly |-> FALSE, secure |-> FALSE, expires |-> 0]
SetCookieParams(c) ==
    [name |-> c.name, value |-> c.value, domain |-> c.domain, path |-> c.path,
     httpOnly |-> c.httpOnly, secure |-> c.secure, expires |-> 0]
\* the browser's store after it stored cookie p: a cookie of the same name,
\* domain and path is replaced
PushCookie(store, p) ==
    SelectSeq(store, LAMBDA c : ~(c.name = p.name /\ c.domain = p.domain /\ c.path = p.path))
        \o <<p>>
RECURSIVE PushAll(_, _, _)
\* the store after the first n SetCookie calls of LoadSession over list cl
PushAll(store, cl, n) ==
    IF n = 0 THEN store
    ELSE PushCookie(PushAll(store, cl, n - 1), SetCookieParams(cl[n]))
\* SaveSession: reading the cookies fails, writing the file fails, or neither
SaveOutcomes == IF rootCancelled THEN {"cookieerr"} ELSE {"cookieerr", "writeerr", "ok"}

\* if !contains(currentURL, "/buyer/login") { ... if err == nil && userExists
LoginDetectedOffLoginPath(loc, marker) == loc # LocErr /\ ~Contains(loc, LoginPath)
LoginDetectedUnlessNoMarker(loc, marker) ==
    loc # LocErr /\ ~Contains(loc, LoginPath) /\ marker # "false"
LoginDetected(loc, marker) ==
    loc # LocErr /\ ~Contains(loc, LoginPath) /\ marker = "true"
\* if time.Since(startTime) > maxWaitTime
TimedOutAfterInterval(e) == e > CheckInterval
TimedOut(e) == e > MaxWaitTime

\* if err := chromedp.Run(m.ctx, chromedp.Location(&currentURL)); err != nil
\* { ...; continue } and if err == nil && isLoggedIn { ... return }: a poll
\* whose URL read or marker evaluation failed goes round the loop
PollFailed(class) == class \in {"urlerr", "evalerr"}
NotePoll(seen, class) ==
    IF seen = "untracked" THEN seen
    ELSE IF PollFailed(class) THEN "seen"
    ELSE seen

\* what one poll saw, for the properties
PollClass(loc, marker) ==
    IF loc = LocErr THEN "urlerr"
    ELSE IF Contains(loc, LoginPath) THEN "login"
    ELSE IF marker = "err" THEN "evalerr"
    ELSE IF marker = "false" THEN "nomarker"
    ELSE "authenticated"

TimeoutErr == Err("timeout", 0, "nil")
LoginNavErr == Err("navigate", 0, "driver")
SaveErr(why) == Err("savesession", 0, why)
\* the file m.sessionFile: absent, unreadable (os.ReadFile fails), malformed
\* (json.Unmarshal fails) or a JSON list of cookies
NoFile == [exists |-> FALSE, form |-> "none", cookies |-> <<>>]
FileOf(form, cl) == [exists |-> TRUE, form |-> form, cookies |-> cl]

\* a Manager as NewManager returns it, with session file f on disk
InitLoginWith(f) ==
    /\ mlPc = "idle"
    /\ mlNavI = 0
    /\ callTime = 0
    /\ elapsed = 0
    /\ polls = 0
    /\ mlResult = NoErr
    /\ isLoggedIn = FALSE
    /\ cookies = <<>>
    /\ sessionFile = f
    /\ driverCookies = <<>>
    /\ lastPoll = "none"
    /\ lastSave = "none"
    /\ onlyLoginBefore = TRUE
    /\ pollsAfterCancel = 0

InitLogin == InitLoginWith(NoFile) /\ pollErrors = "untracked"

\* value returned by SaveSession under outcome sv
SaveResult(sv) ==
    IF sv = "cookieerr" THEN SaveErr("getcookies")
    ELSE IF sv = "writeerr" THEN SaveErr("writefile")
    ELSE NoErr

\* Manager.SaveSession with outcome sv and driver cookies cl, called with
\* m.isLoggedIn = li: m.cookies is assigned once the cookies were read, the
\* file is written next and m.isLoggedIn = true is the last statement
SaveSession(sv, cl, li) ==
    /\ lastSave' = sv
    /\ \/ /\ sv = "cookieerr"
          /\ isLoggedIn' = li
          /\ UNCHANGED <<cookies, sessionFile, driverCookies>>
       \/ /\ sv = "writeerr"
          /\ cookies' = cl
          /\ driverCookies' = cl
          /\ isLoggedIn' = li
          /\ UNCHANGED sessionFile
       \/ /\ sv = "ok"
          /\ cookies' = cl
          /\ driverCookies' = cl
          /\ sessionFile' = FileOf("list", cl)
          /\ isLoggedIn' = TRUE

\* ManualLogin() is entered: NavigateWithRetry to the login page starts
ManualLoginEnter ==
    /\ mlPc = "idle"
    /\ mlPc' = "navigate"
    /\ callTime' \in 0..MaxCallTime
    /\ UNCHANGED <<mlNavI, elapsed, polls, mlResult, isLoggedIn, cookies, sessionFile, driverCookies,
                   lastPoll, lastSave, onlyLoginBefore, pollsAfterCancel, pollErrors>>

\* a caller invokes ManualLogin()
ManualLoginCall ==
    /\ ManualLoginEnter
    /\ UNCHANGED <<monitorVars, cfgVars, executorVars, retryVars, sessionVars>>

\* one attempt of NavigateWithRetry(m.ctx, loginURL, 3) returns
MLNavigateReturn ==
    /\ mlPc = "navigate"
    /\ \E r \in DriverOutcomes :
         \/ /\ r = "ok"
            \* startTime := time.Now()
            /\ mlPc' = "polling"
            /\ UNCHANGED <<mlNavI, mlResult>>
         \/ /\ r = "fail"
            /\ mlNavI < NavMaxRetries - 1
            /\ mlPc' = "navsleep"
            /\ UNCHANGED <<mlNavI, mlResult>>
         \/ /\ r = "fail"
            /\ mlNavI >= NavMaxRetries - 1
            /\ mlPc' = "done"
            /\ mlResult' = LoginNavErr
            /\ UNCHANGED mlNavI
    /\ UNCHANGED <<callTime, elapsed, polls, isLoggedIn, cookies, sessionFile, driverCookies,
                   lastPoll, lastSave, onlyLoginBefore, pollsAfterCancel, pollErrors>>
    /\ UNCHANGED <<monitorVars, cfgVars, executorVars, retryVars, sessionVars>>

MLNavSleepDone ==
    /\ mlPc = "navsleep"
    /\ mlPc' = "navigate"
    /\ mlNavI' = mlNavI + 1
    /\ UNCHANGED <<callTime, elapsed, polls, mlResult, isLoggedIn, cookies, sessionFile, driverCookies,
                   lastPoll, lastSave, onlyLoginBefore, pollsAfterCancel, pollErrors>>
    /\ UNCHANGED <<monitorVars, cfgVars, executorVars, retryVars, sessionVars>>

\* one iteration of the poll loop that passes the timeout check: sleep
\* checkInterval, read the URL, evaluate the login markers, and on detection
\* set isLoggedIn and return SaveSession()
MLPoll ==
    /\ mlPc = "polling"
    /\ ~TimedOut(elapsed)
    /\ \E loc \in LocationOutcomes, marker \in MarkerOutcomes :
         /\ elapsed' = elapsed + CheckInterval + callTime
         /\ lastPoll' = PollClass(loc, marker)
         /\ IF LoginDetected(loc, marker)
            THEN /\ mlPc' = "done"
                 \* m.isLoggedIn = true; return m.SaveSession()
                 /\ \E sv \in SaveOutcomes, cl \in DriverCookieLists :
                       /\ SaveSession(sv, cl, TRUE)
                       /\ mlResult' = SaveResult(sv)
            ELSE UNCHANGED <<isLoggedIn, mlPc, mlResult, cookies, sessionFile, driverCookies, lastSave>>
    /\ polls' = polls + 1
    /\ onlyLoginBefore' = (onlyLoginBefore /\ lastPoll \in {"none", "login"})
    /\ pollsAfterCancel' = IF rootCancelled /\ pollsAfterCancel < MaxPollsAfterCancel
                           THEN pollsAfterCancel + 1 ELSE pollsAfterCancel
    /\ pollErrors' = NotePoll(pollErrors, lastPoll')
    /\ UNCHANGED <<mlNavI, callTime>>
    /\ UNCHANGED <<monitorVars, cfgVars, executorVars, retryVars, sessionVars>>

\* the timeout check at the top of the loop fails the call
MLTimeout ==
    /\ mlPc = "polling"
    /\ TimedOut(elapsed)
    /\ mlPc' = "done"
    /\ mlResult' = TimeoutErr
    /\ UNCHANGED <<mlNavI, callTime, elapsed, polls, isLoggedIn, cookies, sessionFile, driverCookies,
                   lastPoll, lastSave, onlyLoginBefore, pollsAfterCancel, pollErrors>>
    /\ UNCHANGED <<monitorVars, cfgVars, executorVars, retryVars, sessionVars>>

\* the caller cancels the context the Manager was built on while ManualLogin
\* runs
LoginCtxCancel ==
    /\ mlPc \in {"navigate", "navsleep", "polling"}
    /\ ~rootCancelled
    /\ rootCancelled' = TRUE
    /\ UNCHANGED <<groupCancelled, groupErr, startPc, startErr, monitorLogged, pc,
                   navI, selIdx, tickPending, taskErr, cancelInLoop, firstFail,
                   execCalls, navWait, prevOutcome, tabPage, mainPc>>
    /\ UNCHANGED <<cfgVars, executorVars, retryVars, loginVars, sessionVars>>

\* ------------------------------------------------------- Manager.Login
\* a JSON null in the cookie list: json.Unmarshal leaves a nil *network.Cookie
NilCookie == [nil |-> TRUE]
HasNil(cl) == \E k \in 1..Len(cl) : cl[k] = NilCookie
\* what data/cookies/session.json can hold when the process starts
SessionFiles ==
    {NoFile, FileOf("unreadable", <<>>), FileOf("malformed", <<>>),
     FileOf("list", <<DriverCookie(1)>>), FileOf("list", <<NilCookie>>)}
\* what LoadSession finds in file f
LoadClass(f) ==
    IF ~f.exists THEN "missing"
    ELSE IF f.form # "list" THEN f.form
    ELSE IF HasNil(f.cookies) THEN "nullentry"
    ELSE "list"
\* the chromedp.Run of LoadSession over the parsed list cl: the driver fails,
\* or the loop reaches a nil entry and cookie.Name panics, or every cookie is set
LoadOutcomes(cl) ==
    {"fail"} \cup (IF rootCancelled THEN {}
                   ELSE IF HasNil(cl) THEN {"panic"} ELSE {"ok"})
\* the number of leading entries of cl the loop of LoadSession can set: all
\* of them, or those before the first nil entry
PushablePrefix(cl) ==
    CHOOSE n \in 0..Len(cl) :
        /\ \A k \in 1..n : cl[k] # NilCookie
        /\ n = Len(cl) \/ cl[n + 1] = NilCookie
\* the number of cookies already set when the chromedp.Run of LoadSession
\* fails: the call fails before the loop or at one of its SetCookie calls
FailPrefixes(cl) == {n \in 0..PushablePrefix(cl) : n < Len(cl) \/ n = 0}
\* m.cfg.Shopee.BaseURL + "/buyer/login"
LoginURL == <<"shopee", "buyer", "login">>
\* pcs at which Login is inside ValidateSession
ValidatePcs == {"vnavigate", "vnavsleep", "vlocation", "vevaluate"}
\* the driver calls of PerformLogin's form, in order
FormPcs == <<"pform", "ptypeuser", "ptypepw", "pclick">>
PerformErr(why) == Err("performlogin", 0, why)

InitSession(u, p) ==
    /\ hasUsername = u
    /\ hasPassword = p
    /\ lgOp = "none"
    /\ lgLoc = NoLoc
    /\ lgPc = "idle"
    /\ lgNavI = 0
    /\ lgResult = NoErr
    /\ loadSaw = "none"
    /\ loadResult = "none"
    /\ validResult = "none"
    /\ manualCalls = 0
    /\ performCalls = 0

\* Login() is called and enters LoadSession(): os.Stat, os.ReadFile and
\* json.Unmarshal; any failure makes LoadSession return false, otherwise the
\* cookies are pushed into the driver
LoginEnter ==
    /\ loadSaw' = LoadClass(sessionFile)
    /\ IF sessionFile.exists /\ sessionFile.form = "list"
       THEN /\ lgPc' = "setcookies"
            /\ loadResult' = "none"
       ELSE /\ lgPc' = "strategy"
            /\ loadResult' = "false"

\* main calls authManager.Login()
LoginCall ==
    /\ mainPc = "login"
    /\ lgPc = "idle"
    /\ lgOp' = "Login"
    /\ LoginEnter
    /\ UNCHANGED <<hasUsername, hasPassword, lgLoc, lgNavI, lgResult, validResult, manualCalls,
                   performCalls>>
    /\ UNCHANGED <<monitorVars, cfgVars, executorVars, retryVars, loginVars>>

\* the chromedp.Run of LoadSession returns (or panics); on success
\* m.cookies = cookies, LoadSession returns true and Login calls
\* ValidateSession(), whose NavigateWithRetry starts
LoadSetCookiesReturn ==
    /\ lgPc = "setcookies"
    /\ \E r \in LoadOutcomes(sessionFile.cookies) :
         \/ /\ r = "ok"
            /\ cookies' = sessionFile.cookies
            /\ driverCookies' = PushAll(driverCookies, sessionFile.cookies,
                                        Len(sessionFile.cookies))
            /\ loadResult' = "true"
            /\ lgPc' = "vnavigate"
         \/ /\ r = "fail"
            /\ \E n \in FailPrefixes(sessionFile.cookies) :
                  driverCookies' = PushAll(driverCookies, sessionFile.cookies, n)
            /\ loadResult' = "false"
            /\ lgPc' = "strategy"
            /\ UNCHANGED cookies
         \/ /\ r = "panic"
            /\ driverCookies' = PushAll(driverCookies, sessionFile.cookies,
                                        PushablePrefix(sessionFile.cookies))
            /\ lgPc' = "panic"
            /\ UNCHANGED <<cookies, loadResult>>
    /\ UNCHANGED <<hasUsername, hasPassword, lgOp, lgLoc, lgNavI, lgResult, loadSaw, validResult,
                   manualCalls, performCalls>>
    /\ UNCHANGED <<mlPc, mlNavI, callTime, elapsed, polls, mlResult, isLoggedIn,
                   sessionFile, lastPoll, lastSave, onlyLoginBefore, pollsAfterCancel, pollErrors>>
    /\ UNCHANGED <<monitorVars, cfgVars, executorVars, retryVars>>

\* what ValidateSession does to the Manager and to the session file when it
\* returns ok: it assigns no field and touches no file
ValidateSessionInvalidates(ok) ==
    IF ok THEN UNCHANGED <<isLoggedIn, cookies, sessionFile, driverCookies>>
    ELSE isLoggedIn' = FALSE /\ cookies' = <<>> /\ UNCHANGED <<sessionFile, driverCookies>>
ValidateSessionEffect(ok) == UNCHANGED <<isLoggedIn, cookies, sessionFile, driverCookies>>

\* if m.ValidateSession() { m.isLoggedIn = true; return nil }: where Login
\* goes when ValidateSession returned ok
AfterValidateRelogin(ok) == "strategy"
AfterValidate(ok) == IF ok THEN "validated" ELSE "strategy"

\* ValidateSession returns ok to Login
ValidateReturn(ok) ==
    /\ validResult' = IF ok THEN "true" ELSE "false"
    /\ lgPc' = AfterValidate(ok)
    /\ lgNavI' = 0
    /\ ValidateSessionEffect(ok)

\* one attempt of NavigateWithRetry(m.ctx, BaseURL, 3) in ValidateSession
\* returns; after a success ValidateSession sleeps 2 s and reads the URL
VNavigateReturn ==
    /\ lgPc = "vnavigate"
    /\ \E r \in DriverOutcomes :
         \/ /\ r = "ok"
            /\ lgPc' = "vlocation"
            /\ lgNavI' = 0
            /\ UNCHANGED <<validResult, isLoggedIn, cookies, sessionFile, driverCookies>>
         \/ /\ r = "fail"
            /\ lgNavI < NavMaxRetries - 1
            /\ lgPc' = "vnavsleep"
            /\ UNCHANGED <<lgNavI, validResult, isLoggedIn, cookies, sessionFile, driverCookies>>
         \/ /\ r = "fail"
            /\ lgNavI >= NavMaxRetries - 1
            /\ ValidateReturn(FALSE)
    /\ UNCHANGED <<hasUsername, hasPassword, lgOp, lgLoc, lgResult, loadSaw, loadResult, manualCalls,
                   performCalls>>
    /\ UNCHANGED <<mlPc, mlNavI, callTime, elapsed, polls, mlResult, lastPoll, lastSave,
                   onlyLoginBefore, pollsAfterCancel, pollErrors>>
    /\ UNCHANGED <<monitorVars, cfgVars, executorVars, retryVars>>

VNavSleepDone ==
    /\ lgPc = "vnavsleep"
    /\ lgPc' = "vnavigate"
    /\ lgNavI' = lgNavI + 1
    /\ UNCHANGED <<hasUsername, hasPassword, lgOp, lgLoc, lgResult, loadSaw, loadResult, validResult,
                   manualCalls, performCalls>>
    /\ UNCHANGED <<monitorVars, cfgVars, executorVars, retryVars, loginVars>>

\* chromedp.Location returns: an error or the login path end the validation
VLocationReturn ==
    /\ lgPc = "vlocation"
    /\ \E loc \in LocationOutcomes :
         IF loc = LocErr \/ Contains(loc, LoginPath)
         THEN ValidateReturn(FALSE)
         ELSE /\ lgPc' = "vevaluate"
              /\ UNCHANGED <<lgNavI, validResult, isLoggedIn, cookies, sessionFile, driverCookies>>
    /\ UNCHANGED <<hasUsername, hasPassword, lgOp, lgLoc, lgResult, loadSaw, loadResult, manualCalls,
                   performCalls>>
    /\ UNCHANGED <<mlPc, mlNavI, callTime, elapsed, polls, mlResult, lastPoll, lastSave,
                   onlyLoginBefore, pollsAfterCancel, pollErrors>>
    /\ UNCHANGED <<monitorVars, cfgVars, executorVars, retryVars>>

\* chromedp.Evaluate of the account-menu marker returns:
\* return err == nil && userExists
VEvaluateReturn ==
    /\ lgPc = "vevaluate"
    /\ \E marker \in MarkerOutcomes : ValidateReturn(marker = "true")
    /\ UNCHANGED <<hasUsername, hasPassword, lgOp, lgLoc, lgResult, loadSaw, loadResult, manualCalls,
                   performCalls>>
    /\ UNCHANGED <<mlPc, mlNavI, callTime, elapsed, polls, mlResult, lastPoll, lastSave,
                   onlyLoginBefore, pollsAfterCancel, pollErrors>>
    /\ UNCHANGED <<monitorVars, cfgVars, executorVars, retryVars>>

\* Login after ValidateSession() returned true: m.isLoggedIn = true; return nil
LoginReuse ==
    /\ lgOp = "Login"
    /\ lgPc = "validated"
    /\ isLoggedIn' = TRUE
    /\ lgPc' = "done"
    /\ lgResult' = NoErr
    /\ UNCHANGED <<hasUsername, hasPassword, lgOp, lgLoc, lgNavI, loadSaw, loadResult, validResult,
                   manualCalls, performCalls>>
    /\ UNCHANGED <<mlPc, mlNavI, callTime, elapsed, polls, mlResult, cookies,
                   sessionFile, driverCookies, lastPoll, lastSave, onlyLoginBefore, pollsAfterCancel, pollErrors>>
    /\ UNCHANGED <<monitorVars, cfgVars, executorVars, retryVars>>

\* if Username == "" || Password == "" { return m.ManualLogin() }
UseManualLoginOnlyIfBothEmpty(u, p) == ~u /\ ~p
UseManualLogin(u, p) == ~u \/ ~p

\* Login without a reusable session: return m.ManualLogin() or
\* return m.PerformLogin(), whose NavigateWithRetry starts
LoginStrategy ==
    /\ lgOp = "Login"
    /\ lgPc = "strategy"
    /\ lgNavI' = 0
    /\ IF UseManualLogin(hasUsername, hasPassword)
       THEN /\ lgPc' = "manual"
            /\ manualCalls' = manualCalls + 1
            /\ ManualLoginEnter
            /\ UNCHANGED performCalls
       ELSE /\ lgPc' = "pnavigate"
            /\ performCalls' = performCalls + 1
            /\ UNCHANGED manualCalls
            /\ UNCHANGED loginVars
    /\ UNCHANGED <<hasUsername, hasPassword, lgOp, lgLoc, lgResult, loadSaw, loadResult, validResult>>
    /\ UNCHANGED <<monitorVars, cfgVars, executorVars, retryVars>>

\* ManualLogin has returned: Login returns its result
LoginManualReturn ==
    /\ lgPc = "manual"
    /\ mlPc = "done"
    /\ lgPc' = "done"
    /\ lgResult' = mlResult
    /\ UNCHANGED <<hasUsername, hasPassword, lgOp, lgLoc, lgNavI, loadSaw, loadResult, validResult,
                   manualCalls, performCalls>>
    /\ UNCHANGED <<monitorVars, cfgVars, executorVars, retryVars, loginVars>>

\* PerformLogin returns e, and Login returns it
PerformReturn(e) ==
    /\ lgPc' = "done"
    /\ lgResult' = e

\* return m.SaveSession() in PerformLogin
PerformSave ==
    \E sv \in SaveOutcomes, cl \in DriverCookieLists :
        /\ SaveSession(sv, cl, isLoggedIn)
        /\ PerformReturn(SaveResult(sv))

\* one attempt of NavigateWithRetry(m.ctx, loginURL, 3) in PerformLogin
\* returns; after a success PerformLogin sleeps 2 s and reads the URL
PNavigateReturn ==
    /\ lgPc = "pnavigate"
    /\ \E r \in DriverOutcomes :
         \/ /\ r = "ok"
            /\ lgPc' = "plocation"
            /\ lgNavI' = 0
            /\ UNCHANGED lgResult
         \/ /\ r = "fail"
            /\ lgNavI < NavMaxRetries - 1
            /\ lgPc' = "pnavsleep"
            /\ UNCHANGED <<lgNavI, lgResult>>
         \/ /\ r = "fail"
            /\ lgNavI >= NavMaxRetries - 1
            /\ PerformReturn(LoginNavErr)
            /\ UNCHANGED lgNavI
    /\ UNCHANGED <<hasUsername, hasPassword, lgOp, lgLoc, loadSaw, loadResult, validResult,
                   manualCalls, performCalls>>
    /\ UNCHANGED <<monitorVars, cfgVars, executorVars, retryVars, loginVars>>

PNavSleepDone ==
    /\ lgPc = "pnavsleep"
    /\ lgPc' = "pnavigate"
    /\ lgNavI' = lgNavI + 1
    /\ UNCHANGED <<hasUsername, hasPassword, lgOp, lgLoc, lgResult, loadSaw, loadResult, validResult,
                   manualCalls, performCalls>>
    /\ UNCHANGED <<monitorVars, cfgVars, executorVars, retryVars, loginVars>>

\* if currentURL != loginURL && !contains(currentURL, "/buyer/login")
AlreadyLoggedIn(loc) == loc # LoginURL /\ ~Contains(loc, LoginPath)
\* if contains(currentURL, "/buyer/login") after the form was submitted
StillOnLoginPageNever(loc) == FALSE
StillOnLoginPage(loc) == Contains(loc, LoginPath)

\* the first chromedp.Location of PerformLogin returns: an error is returned;
\* a URL other than the login page means "already logged in": SaveSession
PLocationReturn ==
    /\ lgPc = "plocation"
    /\ \E loc \in LocationOutcomes :
         /\ lgLoc' = loc
         /\ IF loc = LocErr
            THEN /\ PerformReturn(PerformErr("location"))
                 /\ UNCHANGED <<isLoggedIn, cookies, sessionFile, driverCookies, lastSave>>
            ELSE IF AlreadyLoggedIn(loc)
            THEN PerformSave
            ELSE /\ lgPc' = "pform"
                 /\ UNCHANGED <<lgResult, isLoggedIn, cookies, sessionFile, driverCookies,
                                lastSave>>
    /\ UNCHANGED <<hasUsername, hasPassword, lgOp, lgNavI, loadSaw, loadResult, validResult,
                   manualCalls, performCalls>>
    /\ UNCHANGED <<mlPc, mlNavI, callTime, elapsed, polls, mlResult, lastPoll,
                   onlyLoginBefore, pollsAfterCancel, pollErrors>>
    /\ UNCHANGED <<monitorVars, cfgVars, executorVars, retryVars>>

\* one driver call of the login form returns: WaitForElement, Type(username),
\* Type(password), Click(submit); an error is returned to the caller; without
\* both credentials PerformLogin gives up after the form was found; after the
\* click it sleeps 5 s and reads the URL again
PFormReturn ==
    /\ \E k \in 1..Len(FormPcs) :
         /\ lgPc = FormPcs[k]
         /\ \E r \in DriverOutcomes :
              IF r = "fail"
              THEN PerformReturn(PerformErr(FormPcs[k]))
              ELSE IF k = 1 /\ ~(hasUsername /\ hasPassword)
              THEN PerformReturn(PerformErr("nocredentials"))
              ELSE /\ lgPc' = IF k < Len(FormPcs) THEN FormPcs[k + 1] ELSE "plocation2"
                   /\ UNCHANGED lgResult
    /\ UNCHANGED <<hasUsername, hasPassword, lgOp, lgLoc, lgNavI, loadSaw, loadResult, validResult,
                   manualCalls, performCalls>>
    /\ UNCHANGED <<monitorVars, cfgVars, executorVars, retryVars, loginVars>>

\* the second chromedp.Location returns: still on the login path is a
\* failure, anything else is followed by SaveSession
PLocation2Return ==
    /\ lgPc = "plocation2"
    /\ \E loc \in LocationOutcomes :
         /\ lgLoc' = loc
         /\ IF loc = LocErr
            THEN /\ PerformReturn(PerformErr("location"))
                 /\ UNCHANGED <<isLoggedIn, cookies, sessionFile, driverCookies, lastSave>>
            ELSE IF StillOnLoginPage(loc)
            THEN /\ PerformReturn(PerformErr("stillonloginpage"))
                 /\ UNCHANGED <<isLoggedIn, cookies, sessionFile, driverCookies, lastSave>>
            ELSE PerformSave
    /\ UNCHANGED <<hasUsername, hasPassword, lgOp, lgNavI, loadSaw, loadResult, validResult,
                   manualCalls, performCalls>>
    /\ UNCHANGED <<mlPc, mlNavI, callTime, elapsed, polls, mlResult, lastPoll,
                   onlyLoginBefore, pollsAfterCancel, pollErrors>>
    /\ UNCHANGED <<monitorVars, cfgVars, executorVars, retryVars>>

\* ------------------------------------ Manager as a library under one caller
\* the methods a caller invokes one after the other on the same Manager
ManagerMethods == {"Login", "RefreshSession", "Logout"}
LogoutErr == Err("logout", 0, "driver")
\* os.Remove(m.sessionFile): the file is removed, or the call fails and its
\* error is dropped
RemoveOutcomes == {"removed", "failed"}

\* a caller invokes Login(), RefreshSession() or Logout() on the Manager once
\* the previous call has returned; the history of the call starts empty
ManagerCall(op) ==
    /\ lgPc \in {"idle", "done"}
    /\ lgOp' = op
    /\ lgLoc' = NoLoc
    /\ lgNavI' = 0
    /\ lgResult' = NoErr
    /\ validResult' = "none"
    /\ lastSave' = "none"
    /\ manualCalls' = 0
    /\ performCalls' = 0
    /\ IF op = "Login"
       THEN LoginEnter
       ELSE /\ lgPc' = IF op = "RefreshSession" THEN "vnavigate" ELSE "clearcookies"
            /\ loadSaw' = "none"
            /\ loadResult' = "none"
    /\ UNCHANGED <<hasUsername, hasPassword>>
    /\ UNCHANGED <<mlPc, mlNavI, callTime, elapsed, polls, mlResult, isLoggedIn, cookies,
                   sessionFile, driverCookies, lastPoll, onlyLoginBefore,
                   pollsAfterCancel, pollErrors>>
    /\ UNCHANGED <<monitorVars, cfgVars, executorVars, retryVars>>

\* if !m.ValidateSession() { return m.PerformLogin() }; return nil
RefreshReloginAlways(valid) == TRUE
RefreshRelogin(valid) == ~valid

\* ValidateSession has returned to RefreshSession
RefreshAfterValidate ==
    /\ lgOp = "RefreshSession"
    /\ lgPc \in {"validated", "strategy"}
    /\ lgNavI' = 0
    /\ IF RefreshRelogin(lgPc = "validated")
       THEN /\ lgPc' = "pnavigate"
            /\ performCalls' = performCalls + 1
            /\ UNCHANGED lgResult
       ELSE /\ lgPc' = "done"
            /\ lgResult' = NoErr
            /\ UNCHANGED performCalls
    /\ UNCHANGED <<hasUsername, hasPassword, lgOp, lgLoc, loadSaw, loadResult, validResult,
                   manualCalls>>
    /\ UNCHANGED <<monitorVars, cfgVars, executorVars, retryVars, loginVars>>

\* the network.ClearBrowserCookies call of Logout returns: an error is
\* returned at once; otherwise os.Remove(m.sessionFile), m.isLoggedIn = false,
\* m.cookies = nil, return nil
LogoutClearReturn ==
    /\ lgOp = "Logout"
    /\ lgPc = "clearcookies"
    /\ lgPc' = "done"
    /\ \E r \in DriverOutcomes :
         IF r = "fail"
         THEN /\ lgResult' = LogoutErr
              /\ UNCHANGED <<isLoggedIn, cookies, sessionFile, driverCookies>>
         ELSE /\ lgResult' = NoErr
              /\ driverCookies' = <<>>
              /\ \E rm \in RemoveOutcomes :
                    sessionFile' = IF rm = "removed" THEN NoFile ELSE sessionFile
              /\ isLoggedIn' = FALSE
              /\ cookies' = <<>>
    /\ UNCHANGED <<hasUsername, hasPassword, lgOp, lgLoc, lgNavI, loadSaw, loadResult,
                   validResult, manualCalls, performCalls>>
    /\ UNCHANGED <<mlPc, mlNavI, callTime, elapsed, polls, mlResult, lastPoll, lastSave,
                   onlyLoginBefore, pollsAfterCancel, pollErrors>>
    /\ UNCHANGED <<monitorVars, cfgVars, executorVars, retryVars>>

\* the process is started again: NewManager over a fresh browser, the
\* session file is what the previous run left
ProcessRestart ==
    /\ lgPc = "done"
    /\ lgOp' = "none"
    /\ lgLoc' = NoLoc
    /\ lgPc' = "idle"
    /\ lgNavI' = 0
    /\ lgResult' = NoErr
    /\ loadSaw' = "none"
    /\ loadResult' = "none"
    /\ validResult' = "none"
    /\ manualCalls' = 0
    /\ performCalls' = 0
    /\ UNCHANGED <<hasUsername, hasPassword>>
    /\ isLoggedIn' = FALSE
    /\ cookies' = <<>>
    /\ driverCookies' = <<>>
    /\ lastSave' = "none"
    /\ UNCHANGED <<mlPc, mlNavI, callTime, elapsed, polls, mlResult, sessionFile,
                   lastPoll, onlyLoginBefore, pollsAfterCancel, pollErrors>>
    /\ UNCHANGED <<monitorVars, cfgVars, executorVars, retryVars>>

\* ------------------------------------------------------------ main, startup
\* if err := authManager.Login(); err != nil { log.Fatal(...) }: Fatal logs and
\* calls os.Exit(1); otherwise main builds the executor and the monitor,
\* launches the goroutine that calls monitor.Start and waits for a signal
MainAfterLoginAlwaysStart(e) == "waitsignal"
MainAfterLogin(e) == IF e # NoErr THEN "fatal" ELSE "waitsignal"

MainLoginReturn ==
    /\ mainPc = "login"
    /\ lgPc = "done"
    /\ mainPc' = MainAfterLogin(lgResult)
    /\ UNCHANGED <<rootCancelled, groupCancelled, groupErr, startPc, startErr,
                   monitorLogged, pc, navI, selIdx, tickPending, taskErr, cancelInLoop,
                   firstFail, execCalls, navWait, prevOutcome, tabPage>>
    /\ UNCHANGED nonMonitorVars

\* ------------------------- purchase.Executor, one call outside RetryPurchase
\* context.WithTimeout(e.ctx, 5*time.Second) in AddToCart, in seconds
AddToCartTimeout == 5
\* time.Sleep(1 * time.Second) in AddToCart, in milliseconds
SettleDelay == 1000
\* time.Sleep(500 * time.Millisecond) in ExecutePurchase of executor.go
HumanDelay == 500
\* time.Sleep(2 * time.Second) in ClearCart and in ProceedToCheckout
PageLoadDelay == 2000
\* chromedp.Sleep(500*time.Millisecond) between the clicks of ClearCart
ClickDelay == 500
\* time.Sleep(3 * time.Second) in PlaceOrder
ConfirmDelay == 3000
\* the two definitions of ExecutePurchase in the sources: the one that only
\* adds to the cart and the one that goes on to the checkout
ExecBuilds == {"part_002", "executor.go"}
ExErr(kind, cause) == Err(kind, 0, cause)
\* a driver action the call has made, with how it ended
Step(name, result) == <<name, result>>

InitExecutorWith(b, a) ==
    /\ execBuild = b
    /\ autoCheckout = a
    /\ exOp = "none"
    /\ exPc = "idle"
    /\ exSelector = 0
    /\ exErr = NoErr
    /\ exValue = 0
    /\ exSteps = <<>>
    /\ exElapsed = 0
    /\ exSlept = 0

InitExecutor == InitExecutorWith("part_002", FALSE)

\* no call is in progress: the methods are called one after the other
MethodIdle == exPc \in {"idle", "done"}

\* method op is entered with selector sel: its first driver call starts
MethodEnter(op, sel, first) ==
    /\ exOp' = op
    /\ exPc' = first
    /\ exSelector' = sel
    /\ exErr' = NoErr
    /\ exValue' = 0
    /\ exSteps' = <<>>
    /\ exElapsed' = 0
    /\ exSlept' = 0
    /\ UNCHANGED <<autoCheckout, execBuild>>
    /\ UNCHANGED <<monitorVars, cfgVars, retryVars, loginVars, sessionVars>>

\* the call returns err
MethodReturn(err) ==
    /\ exPc' = "done"
    /\ exErr' = err

\* ExecutePurchase(productSelector) -> AddToCart(selector): the chromedp.Run
\* of WaitVisible and Click starts under the 5 s deadline
ExecutePurchaseCall(sel) ==
    /\ MethodIdle
    /\ MethodEnter("ExecutePurchase", sel, "addtocart")

\* err == nil of the chromedp.Run in AddToCart: the control became visible
\* before the deadline and the click went through
AddToCartSucceededOnVisible(visible, clicked) == visible
AddToCartSucceeded(visible, clicked) == visible /\ clicked

\* the chromedp.Run of AddToCart returns: the control is visible after tv
\* seconds or the deadline passes first or the driver fails (w), and the
\* click goes through or not (c); an error is wrapped and returned by
\* ExecutePurchase, otherwise AddToCart sleeps
AddToCartReturn ==
    /\ exOp = "ExecutePurchase"
    /\ exPc = "addtocart"
    /\ \E tv \in 0..MaxVisibleTime, w \in DriverOutcomes, c \in DriverOutcomes :
         LET intime == tv < AddToCartTimeout
             visible == intime /\ w = "ok"
             clicked == visible /\ c = "ok"
             wres == IF ~intime THEN "deadline" ELSE w
         IN  /\ exElapsed' = IF intime THEN tv ELSE AddToCartTimeout
             /\ exSteps' = IF visible
                           THEN <<Step("waitvisible", wres), Step("click", c)>>
                           ELSE <<Step("waitvisible", wres)>>
             /\ IF AddToCartSucceeded(visible, clicked)
                THEN /\ exPc' = "settle"
                     /\ UNCHANGED exErr
                ELSE MethodReturn(ExErr("addtocart", IF visible THEN "click" ELSE wres))
    /\ UNCHANGED <<autoCheckout, execBuild, exOp, exSelector, exValue, exSlept>>
    /\ UNCHANGED <<monitorVars, cfgVars, retryVars, loginVars, sessionVars>>

\* where ExecutePurchase goes once AddToCart returned nil: the definition of
\* part_002 returns nil, that of executor.go sleeps 500 ms first
AfterAddToCart(b) == IF b = "executor.go" THEN "humandelay" ELSE "done"

\* time.Sleep(1 * time.Second) in AddToCart is over: AddToCart returns nil
ExSettleDone ==
    /\ exOp = "ExecutePurchase"
    /\ exPc = "settle"
    /\ exSlept' = exSlept + SettleDelay
    /\ exPc' = AfterAddToCart(execBuild)
    /\ UNCHANGED <<autoCheckout, execBuild, exOp, exSelector, exErr, exValue, exSteps,
                   exElapsed>>
    /\ UNCHANGED <<monitorVars, cfgVars, retryVars, loginVars, sessionVars>>

\* if !e.cfg.Purchase.AutoCheckout { return nil } in executor.go
ProceedsToCheckoutAlways(auto) == TRUE
ProceedsToCheckout(auto) == auto

\* executor.go: the 500 ms sleep is over; ExecutePurchase returns nil or
\* calls ProceedToCheckout
ExHumanDelayDone ==
    /\ exOp = "ExecutePurchase"
    /\ exPc = "humandelay"
    /\ exSlept' = exSlept + HumanDelay
    /\ IF ProceedsToCheckout(autoCheckout)
       THEN exPc' = "checkout" /\ UNCHANGED exErr
       ELSE MethodReturn(NoErr)
    /\ UNCHANGED <<autoCheckout, execBuild, exOp, exSelector, exValue, exSteps, exElapsed>>
    /\ UNCHANGED <<monitorVars, cfgVars, retryVars, loginVars, sessionVars>>

\* executor.go: ProceedToCheckout returns: one of the checkout buttons was
\* clicked and the page load was waited for, or none was found
CheckoutReturn ==
    /\ exOp = "ExecutePurchase"
    /\ exPc = "checkout"
    /\ \E r \in DriverOutcomes :
         /\ exSteps' = Append(exSteps, Step("checkout", r))
         /\ IF r = "ok"
            THEN /\ exPc' = "placeorder"
                 /\ exSlept' = exSlept + PageLoadDelay
                 /\ UNCHANGED exErr
            ELSE /\ MethodReturn(ExErr("checkout", "notfound"))
                 /\ UNCHANGED exSlept
    /\ UNCHANGED <<autoCheckout, execBuild, exOp, exSelector, exValue, exElapsed>>
    /\ UNCHANGED <<monitorVars, cfgVars, retryVars, loginVars, sessionVars>>

\* executor.go: PlaceOrder returns: no button was found, or one was clicked
\* and, 3 s later, VerifyOrderSuccess found a confirmation or none
PlaceOrderReturn ==
    /\ exOp = "ExecutePurchase"
    /\ exPc = "placeorder"
    /\ \E r \in {"ok", "fail", "noconfirm"} :
         /\ r = "ok" => ~rootCancelled
         /\ exSteps' = Append(exSteps, Step("placeorder", r))
         /\ exSlept' = IF r = "fail" THEN exSlept ELSE exSlept + ConfirmDelay
         /\ MethodReturn(IF r = "ok" THEN NoErr ELSE ExErr("placeorder", r))
    /\ UNCHANGED <<autoCheckout, execBuild, exOp, exSelector, exValue, exElapsed>>
    /\ UNCHANGED <<monitorVars, cfgVars, retryVars, loginVars, sessionVars>>

\* GetCartItemCount(): chromedp.Evaluate of the cart-count expression starts
GetCartItemCountCall ==
    /\ MethodIdle
    /\ MethodEnter("GetCartItemCount", 0, "evaluate")

\* what the evaluation reports: the driver fails, no indicator is in the
\* page (the expression yields 0), or the indicator shows a number
CartCountOutcomes ==
    {Step("err", 0)} \cup
        (IF rootCancelled THEN {}
         ELSE {Step("absent", 0)} \cup {Step("present", n) : n \in 0..MaxCartCount})

\* return count, err
CartCountReturn ==
    /\ exOp = "GetCartItemCount"
    /\ exPc = "evaluate"
    /\ \E r \in CartCountOutcomes :
         /\ exSteps' = <<Step("evaluate", r[1])>>
         /\ exValue' = r[2]
         /\ MethodReturn(IF r[1] = "err" THEN ExErr("evaluate", "driver") ELSE NoErr)
    /\ UNCHANGED <<autoCheckout, execBuild, exOp, exSelector, exElapsed, exSlept>>
    /\ UNCHANGED <<monitorVars, cfgVars, retryVars, loginVars, sessionVars>>

\* ClearCart(): chromedp.Navigate(cartURL) starts
ClearCartCall ==
    /\ MethodIdle
    /\ MethodEnter("ClearCart", 0, "navigate")

\* the clicks of the second chromedp.Run of ClearCart, in order
CartClicks == <<"selectall", "delete", "confirm">>

\* chromedp.Run stops at the first action that returns an error
CartStepAbortsNever(r) == FALSE
CartStepAborts(r) == r = "fail"

\* chromedp.Navigate(cartURL) returns: an error is wrapped and returned,
\* otherwise ClearCart sleeps 2 s
CartNavigateReturn ==
    /\ exOp = "ClearCart"
    /\ exPc = "navigate"
    /\ \E r \in DriverOutcomes :
         /\ exSteps' = Append(exSteps, Step("navigate", r))
         /\ IF CartStepAborts(r)
            THEN MethodReturn(ExErr("clearcart", "navigate"))
            ELSE exPc' = "cartload" /\ UNCHANGED exErr
    /\ UNCHANGED <<autoCheckout, execBuild, exOp, exSelector, exValue, exElapsed, exSlept>>
    /\ UNCHANGED <<monitorVars, cfgVars, retryVars, loginVars, sessionVars>>

\* time.Sleep(2 * time.Second) is over: the chromedp.Run of the clicks starts
CartLoadDone ==
    /\ exOp = "ClearCart"
    /\ exPc = "cartload"
    /\ exSlept' = exSlept + PageLoadDelay
    /\ exPc' = CartClicks[1]
    /\ UNCHANGED <<autoCheckout, execBuild, exOp, exSelector, exErr, exValue, exSteps,
                   exElapsed>>
    /\ UNCHANGED <<monitorVars, cfgVars, retryVars, loginVars, sessionVars>>

\* one click of the chromedp.Run returns: an error ends the Run and is
\* wrapped and returned; otherwise the Run sleeps 500 ms and makes the next
\* click, and after the last one ClearCart returns nil
CartClickReturn ==
    /\ exOp = "ClearCart"
    /\ \E k \in 1..Len(CartClicks) :
         /\ exPc = CartClicks[k]
         /\ \E r \in DriverOutcomes :
              /\ exSteps' = Append(exSteps, Step(CartClicks[k], r))
              /\ IF CartStepAborts(r)
                 THEN /\ MethodReturn(ExErr("clearcart", CartClicks[k]))
                      /\ UNCHANGED exSlept
                 ELSE IF k < Len(CartClicks)
                 THEN /\ exPc' = CartClicks[k + 1]
                      /\ exSlept' = exSlept + ClickDelay
                      /\ UNCHANGED exErr
                 ELSE /\ MethodReturn(NoErr)
                      /\ UNCHANGED exSlept
    /\ UNCHANGED <<autoCheckout, execBuild, exOp, exSelector, exValue, exElapsed>>
    /\ UNCHANGED <<monitorVars, cfgVars, retryVars, loginVars, sessionVars>>

\* --------------------------- livestream.Monitor, reads outside the poll loop
\* CheckFlashSale(streamID): chromedp.Evaluate of the countdown marker starts
CheckFlashSaleCall(i) ==
    /\ MethodIdle
    /\ MethodEnter("CheckFlashSale", i, "fstimer")

\* the value of exValue for a nil *FlashSale and for a FlashSale
NoFlashSale == 0
FlashSaleFound == 1

\* the evaluation returns: if err != nil || !hasTimer { return nil, nil };
\* otherwise chromedp.Text of the countdown starts
FlashTimerReturn ==
    /\ exOp = "CheckFlashSale"
    /\ exPc = "fstimer"
    /\ \E r \in MarkerOutcomes :
         /\ exSteps' = Append(exSteps, Step("evaluate", r))
         /\ IF r = "true"
            THEN exPc' = "fstext" /\ UNCHANGED <<exErr, exValue>>
            ELSE MethodReturn(NoErr) /\ exValue' = NoFlashSale
    /\ UNCHANGED <<autoCheckout, execBuild, exOp, exSelector, exElapsed, exSlept>>
    /\ UNCHANGED <<monitorVars, cfgVars, retryVars, loginVars, sessionVars>>

\* chromedp.Text returns: if err != nil { return nil, err }; otherwise the
\* FlashSale is returned
FlashTextReturn ==
    /\ exOp = "CheckFlashSale"
    /\ exPc = "fstext"
    /\ \E r \in DriverOutcomes :
         /\ exSteps' = Append(exSteps, Step("text", r))
         /\ IF r = "fail"
            THEN MethodReturn(ExErr("flashsale", "text")) /\ exValue' = NoFlashSale
            ELSE MethodReturn(NoErr) /\ exValue' = FlashSaleFound
    /\ UNCHANGED <<autoCheckout, execBuild, exOp, exSelector, exElapsed, exSlept>>
    /\ UNCHANGED <<monitorVars, cfgVars, retryVars, loginVars, sessionVars>>

\* GetProductInfo(): chromedp.Text of the product name starts
GetProductInfoCall ==
    /\ MethodIdle
    /\ MethodEnter("GetProductInfo", 0, "name")

\* the reads of GetProductInfo, in order: Name, Price, Stock
InfoFields == <<"name", "price", "stock">>
\* exValue holds the fields of ProductInfo that were set, one bit per field
FieldBit(k) == 2 ^ (k - 1)

\* one chromedp.Text returns: if err == nil the field is set; the next read
\* starts, and after the last one &info, nil is returned
ProductTextReturn ==
    /\ exOp = "GetProductInfo"
    /\ \E k \in 1..Len(InfoFields) :
         /\ exPc = InfoFields[k]
         /\ \E r \in DriverOutcomes :
              /\ exSteps' = Append(exSteps, Step(InfoFields[k], r))
              /\ exValue' = IF r = "ok" THEN exValue + FieldBit(k) ELSE exValue
         /\ IF k < Len(InfoFields)
            THEN exPc' = InfoFields[k + 1] /\ UNCHANGED exErr
            ELSE MethodReturn(NoErr)
    /\ UNCHANGED <<autoCheckout, execBuild, exOp, exSelector, exElapsed, exSlept>>
    /\ UNCHANGED <<monitorVars, cfgVars, retryVars, loginVars, sessionVars>>

\* ------------------- livestream.Monitor.checkProductAvailability, one call
\* checkProductAvailability(streamID): the range loop starts with the first
\* selector; streamID is only printed
CheckAvailabilityCall ==
    /\ MethodIdle
    /\ MethodEnter("checkProductAvailability", 1, "cpaevaluate")

\* if err == nil && buttonExists
SelectorMatchesUnlessAbsent(r) == r # "absent"
SelectorMatches(r) == r = "present"

\* chromedp.Evaluate of selector exSelector returns: on a match
\* ExecutePurchase(selector) is called with it (exValue holds the selector
\* passed), otherwise the loop goes to the next selector and, after the last
\* one, checkProductAvailability returns nil
CpaEvaluateReturn ==
    /\ exOp = "checkProductAvailability"
    /\ exPc = "cpaevaluate"
    /\ \E r \in EvalOutcomes :
         /\ exSteps' = Append(exSteps, Step("evaluate", r))
         /\ IF SelectorMatches(r)
            THEN /\ exPc' = "cpapurchase"
                 /\ exValue' = exSelector
                 /\ UNCHANGED <<exSelector, exErr>>
            ELSE IF exSelector < NumSelectors
            THEN /\ exSelector' = exSelector + 1
                 /\ UNCHANGED <<exPc, exValue, exErr>>
            ELSE /\ MethodReturn(NoErr)
                 /\ UNCHANGED <<exSelector, exValue>>
    /\ UNCHANGED <<autoCheckout, execBuild, exOp, exElapsed, exSlept>>
    /\ UNCHANGED <<monitorVars, cfgVars, retryVars, loginVars, sessionVars>>

\* m.executor.ExecutePurchase(selector) returns: its error is printed and
\* returned, otherwise nil is returned; the loop is left either way
CpaPurchaseReturn ==
    /\ exOp = "checkProductAvailability"
    /\ exPc = "cpapurchase"
    /\ \E r \in DriverOutcomes :
         /\ exSteps' = Append(exSteps, Step("purchase", r))
         /\ MethodReturn(IF r = "ok" THEN NoErr ELSE ExErr("addtocart", "driver"))
    /\ UNCHANGED <<autoCheckout, execBuild, exOp, exSelector, exValue, exElapsed, exSlept>>
    /\ UNCHANGED <<monitorVars, cfgVars, retryVars, loginVars, sessionVars>>

\* ---------------------------------------------------------- specifications
\* the stream monitor under main: one valid configuration
Init ==
    /\ InitMonitor
    /\ mainPc = "waitsignal"
    /\ InitRetry
    /\ InitExecutor
    /\ InitLogin
    /\ InitSession(FALSE, FALSE)
    /\ maxRetries = ValidateMaxRetries(0)
    /\ retryDelay = 1
    /\ checkInterval = 1

Next ==
    \/ MonitorStart
    \/ RootCancel
    \/ \E i \in Streams : NavigateReturn(i)
    \/ \E i \in Streams : NavSleepDone(i)
    \/ \E i \in Streams : Tick(i)
    \/ \E i \in Streams : SelectDone(i)
    \/ \E i \in Streams : SelectTick(i)
    \/ \E i \in Streams : SelectPark(i)
    \/ \E i \in Streams : StopReturn(i)
    \/ \E i \in Streams : EvaluateReturn(i)
    \/ \E i \in Streams : PurchaseReturn(i)
    \/ \E i \in Streams : SettleDone(i)
    \/ \E i \in Streams : CheckReturn(i)
    \/ StartReturn
    \/ MainLogError
    \/ MainExit

Spec == Init /\ [][Next]_vars

\* the stream monitor under main with the scheduling the claim of
\* termination assumes: the Go scheduler runs every runnable goroutine and
\* every driver call and sleep returns (weak fairness of each step), and a
\* select with the cancellation ready again and again chooses it in the end,
\* since the choice among ready cases is uniformly random (strong fairness)
Fairness ==
    /\ WF_vars(MonitorStart)
    /\ WF_vars(StartReturn)
    /\ WF_vars(MainLogError)
    /\ \A i \in Streams :
          /\ WF_vars(NavigateReturn(i))
          /\ WF_vars(NavSleepDone(i))
          /\ SF_vars(SelectDone(i))
          /\ WF_vars(StopReturn(i))
          /\ WF_vars(EvaluateReturn(i))
          /\ WF_vars(PurchaseReturn(i))
          /\ WF_vars(SettleDone(i))
          /\ WF_vars(CheckReturn(i))

SpecShutdown == Init /\ [][Next]_vars /\ Fairness

\* one call of RetryPurchase under every configuration within the bounds
InitRetrySpec ==
    /\ InitMonitor
    /\ mainPc = "waitsignal"
    /\ InitRetry
    /\ InitExecutor
    /\ InitLogin
    /\ InitSession(FALSE, FALSE)
    /\ \E raw \in 0..MaxRetriesBound : maxRetries = ValidateMaxRetries(raw)
    /\ retryDelay \in 0..MaxRetryDelay
    /\ checkInterval = 1

NextRetry ==
    \/ \E sel \in 1..NumSelectors : RetryPurchaseCall(sel)
    \/ RpSleepDone
    \/ RpAddToCartReturn
    \/ RpSettleDone

SpecRetry == InitRetrySpec /\ [][NextRetry]_vars

\* one call of RetryPurchase on an Executor whose Config did not go through
\* Validate (NewExecutor takes any *config.Config): max_retries may be 0 or
\* negative
InitRetryAny ==
    /\ InitMonitor
    /\ mainPc = "waitsignal"
    /\ InitRetry
    /\ InitExecutor
    /\ InitLogin
    /\ InitSession(FALSE, FALSE)
    /\ maxRetries \in (0 - 1)..MaxRetriesBound
    /\ retryDelay \in 0..MaxRetryDelay
    /\ checkInterval = 1

SpecRetryAny == InitRetryAny /\ [][NextRetry]_vars

\* one call of ManualLogin
NextLogin ==
    \/ ManualLoginCall
    \/ MLNavigateReturn
    \/ MLNavSleepDone
    \/ MLPoll
    \/ MLTimeout
    \/ LoginCtxCancel

InitLoginSpec ==
    /\ InitMonitor
    /\ mainPc = "login"
    /\ InitRetry
    /\ InitExecutor
    /\ InitLoginWith(NoFile)
    /\ pollErrors = "none"
    /\ InitSession(FALSE, FALSE)
    /\ maxRetries = ValidateMaxRetries(0)
    /\ retryDelay = 1
    /\ checkInterval = 1

SpecLogin == InitLoginSpec /\ [][NextLogin]_vars

\* the session files and credentials the process is started with: every
\* file with both credentials or none, and a single credential without a file
StartupInputs ==
    {<<f, u, u>> : f \in SessionFiles, u \in BOOLEAN}
        \cup {<<NoFile, TRUE, FALSE>>, <<NoFile, FALSE, TRUE>>}

\* main from the call of Login to the call of Monitor.Start
InitStartup ==
    /\ InitMonitor
    /\ mainPc = "login"
    /\ InitRetry
    /\ InitExecutor
    /\ \E inp \in StartupInputs : InitLoginWith(inp[1]) /\ pollErrors = "untracked" /\ InitSession(inp[2], inp[3])
    /\ maxRetries = ValidateMaxRetries(0)
    /\ retryDelay = 1
    /\ checkInterval = 1

NextStartup ==
    \/ LoginCall
    \/ LoadSetCookiesReturn
    \/ VNavigateReturn
    \/ VNavSleepDone
    \/ VLocationReturn
    \/ VEvaluateReturn
    \/ LoginReuse
    \/ LoginStrategy
    \/ MLNavigateReturn
    \/ MLNavSleepDone
    \/ MLPoll
    \/ MLTimeout
    \/ LoginManualReturn
    \/ PNavigateReturn
    \/ PNavSleepDone
    \/ PLocationReturn
    \/ PFormReturn
    \/ PLocation2Return
    \/ MainLoginReturn
    \/ MonitorStart

SpecStartup == InitStartup /\ [][NextStartup]_vars

\* the Manager of a configuration with credentials, on a machine without a
\* session file, under a caller that invokes its methods one after the other
InitSessionSpec ==
    /\ InitMonitor
    /\ mainPc = "login"
    /\ InitRetry
    /\ InitExecutor
    /\ InitLogin
    /\ InitSession(TRUE, TRUE)
    /\ maxRetries = ValidateMaxRetries(0)
    /\ retryDelay = 1
    /\ checkInterval = 1

NextSession ==
    \/ \E op \in ManagerMethods : ManagerCall(op)
    \/ LoadSetCookiesReturn
    \/ VNavigateReturn
    \/ VNavSleepDone
    \/ VLocationReturn
    \/ VEvaluateReturn
    \/ LoginReuse
    \/ LoginStrategy
    \/ RefreshAfterValidate
    \/ PNavigateReturn
    \/ PNavSleepDone
    \/ PLocationReturn
    \/ PFormReturn
    \/ PLocation2Return
    \/ LogoutClearReturn
    \/ ProcessRestart

SpecSession == InitSessionSpec /\ [][NextSession]_vars

\* the methods of the Executor and of the Monitor that run outside the poll
\* loop, called one after the other; the Executor is that of part_002
InitExecutorSpec ==
    /\ InitMonitor
    /\ mainPc = "waitsignal"
    /\ InitRetry
    /\ \E a \in BOOLEAN : InitExecutorWith("part_002", a)
    /\ InitLogin
    /\ InitSession(FALSE, FALSE)
    /\ maxRetries = ValidateMaxRetries(0)
    /\ retryDelay = 1
    /\ checkInterval = 1

NextExecutor ==
    \/ \E sel \in 1..NumSelectors : ExecutePurchaseCall(sel)
    \/ AddToCartReturn
    \/ ExSettleDone
    \/ GetCartItemCountCall
    \/ CartCountReturn
    \/ ClearCartCall
    \/ CartNavigateReturn
    \/ CartLoadDone
    \/ CartClickReturn
    \/ \E i \in Streams : CheckFlashSaleCall(i)
    \/ FlashTimerReturn
    \/ FlashTextReturn
    \/ GetProductInfoCall
    \/ ProductTextReturn

SpecExecutor == InitExecutorSpec /\ [][NextExecutor]_vars

\* ExecutePurchase in either of its two definitions, with auto_checkout set
\* or not
InitTestMode ==
    /\ InitMonitor
    /\ mainPc = "waitsignal"
    /\ InitRetry
    /\ \E b \in ExecBuilds, a \in BOOLEAN : InitExecutorWith(b, a)
    /\ InitLogin
    /\ InitSession(FALSE, FALSE)
    /\ maxRetries = ValidateMaxRetries(0)
    /\ retryDelay = 1
    /\ checkInterval = 1

NextTestMode ==
    \/ \E sel \in 1..NumSelectors : ExecutePurchaseCall(sel)
    \/ AddToCartReturn
    \/ ExSettleDone
    \/ ExHumanDelayDone
    \/ CheckoutReturn
    \/ PlaceOrderReturn

SpecTestMode == InitTestMode /\ [][NextTestMode]_vars

\* the stream monitor while no shutdown signal arrives, with the browser tab
\* followed from the page main left it on
InitPages ==
    /\ InitMonitorWith(0)
    /\ mainPc = "waitsignal"
    /\ InitRetry
    /\ InitExecutor
    /\ InitLogin
    /\ InitSession(FALSE, FALSE)
    /\ maxRetries = ValidateMaxRetries(0)
    /\ retryDelay = 1
    /\ checkInterval = 1

NextPages ==
    \/ MonitorStart
    \/ \E i \in Streams : NavigateReturn(i)
    \/ \E i \in Streams : NavSleepDone(i)
    \/ \E i \in Streams : Tick(i)
    \/ \E i \in Streams : SelectDone(i)
    \/ \E i \in Streams : SelectTick(i)
    \/ \E i \in Streams : SelectPark(i)
    \/ \E i \in Streams : StopReturn(i)
    \/ \E i \in Streams : EvaluateReturn(i)
    \/ \E i \in Streams : PurchaseReturn(i)
    \/ \E i \in Streams : SettleDone(i)
    \/ \E i \in Streams : CheckReturn(i)
    \/ StartReturn
    \/ MainLogError

SpecPages == InitPages /\ [][NextPages]_vars

\* the stream monitor while no shutdown signal arrives, under every
\* monitoring.check_interval of a config.yaml that Validate accepts: a
\* multiple of half a second from -1 to MaxCheckInterval, or no key
YamlCheckIntervals == (0 - 2)..(2 * MaxCheckInterval)

InitIntervals ==
    /\ InitMonitor
    /\ mainPc = "waitsignal"
    /\ InitRetry
    /\ InitExecutor
    /\ InitLogin
    /\ InitSession(FALSE, FALSE)
    /\ maxRetries = ValidateMaxRetries(0)
    /\ retryDelay = 1
    /\ \E h \in YamlCheckIntervals : checkInterval = DecodeCheckInterval(h)

SpecIntervals == InitIntervals /\ [][NextPages]_vars

\* checkProductAvailability called again and again, as the ticks of one
\* stream task do
NextCheck ==
    \/ CheckAvailabilityCall
    \/ CpaEvaluateReturn
    \/ CpaPurchaseReturn

SpecCheck == InitExecutorSpec /\ [][NextCheck]_vars

\* ------------------------------------------------------------ properties
\* pcs at which a stream task makes no navigation, detection or purchase call
QuietPcs == {"select", "parked", "stopping", "stopped"}

\* C1 (as claimed): a stream task that was waiting for its next tick when the
\* cancellation signal was raised makes no navigation, detection or purchase
\* call afterwards, also when a tick and the cancellation are both pending at
\* the same select.
C1_NoCallAfterCancel ==
    \A i \in Streams : cancelInLoop[i] => pc[i] \in QuietPcs

\* C2: a cancellation error becomes the group's error only by a shutdown,
\* never because a sibling's failure induced it; otherwise the group's error
\* is the error of the first task that returned a navigation error;
\* Monitor.Start returns exactly the group's error, wrapped, and nothing is
\* surfaced before it returns.
C2_GroupErrorPropagation ==
    /\ groupErr.kind = "canceled" => rootCancelled
    /\ (firstFail # 0 /\ groupErr.kind # "canceled") => groupErr = NavErr(firstFail)
    /\ (firstFail # 0 /\ ~rootCancelled) => groupErr = NavErr(firstFail)
    /\ startPc = "returned" => startErr = MonitoringErr(groupErr)
    /\ startPc # "returned" => (startErr = NoErr /\ ~monitorLogged)

\* C2 witness: Start has returned a task's navigation error after a sibling
\* returned the cancellation error the failure induced.
C2_Witness ==
    /\ startPc = "returned"
    /\ ~rootCancelled
    /\ firstFail # 0
    /\ startErr = MonitoringErr(NavErr(firstFail))
    /\ \E j \in Streams : taskErr[j] = Canceled

\* C3 (as claimed): as soon as a task has returned a non-cancellation error
\* Monitor.Start can return, whether or not sibling tasks are still running.
C3_StartReturnsAtFirstError ==
    (startPc = "waiting" /\ groupErr.kind = "navigate") => ENABLED StartReturn

\* C3 (amended): the first error raises the shared cancellation signal at
\* once, but Monitor.Start returns only after every task has returned; a
\* task returns either its own navigation error or, having observed the
\* cancellation signal, the cancellation error.
C3_DrainThenReport ==
    /\ groupErr # NoErr => groupCancelled
    /\ startPc = "returned" => \A i \in Streams : pc[i] = "stopped"
    /\ \A i \in Streams :
         pc[i] = "stopped" =>
            \/ taskErr[i] = NavErr(i)
            \/ taskErr[i] = Canceled /\ CtxDone

\* C3 witness: a task has failed, the group is cancelled, Start is still
\* waiting and a sibling is inside a detection call.
C3_Witness ==
    /\ startPc = "waiting"
    /\ groupErr.kind = "navigate"
    /\ ~rootCancelled
    /\ \E j \in Streams : pc[j] = "evaluate"

\* C4 (as claimed): when shutdown stopped the stream tasks and no task had a
\* navigation error, Monitor.Start returns no error and main logs no
\* monitoring failure.
C4_CancellationIsNotAFailure ==
    (startPc = "returned" /\ rootCancelled
        /\ \A i \in Streams : taskErr[i].kind # "navigate")
    => (startErr = NoErr /\ ~monitorLogged)

\* C5 (as claimed): two different stream tasks are never inside a driver call
\* on the same browser context at the same time.
C5_DriverCallsNeverInterleave ==
    \A i, j \in Streams :
        (i # j /\ InDriverCall(i) /\ InDriverCall(j)) => BrowserCtxOf(i) # BrowserCtxOf(j)

C7_PurchaseRetried ==
    \A i \in Streams : pc[i] = "purchasefailed" => execCalls[i] = maxRetries

\* ManualLogin has returned nil
MLSuccess == mlPc = "done" /\ mlResult = NoErr

\* C8 (as claimed): in the poll in which the driver first reports an
\* authenticated page, after login-URL polls only, ManualLogin returns success.
C8_DetectionReturnsSuccess ==
    (lastPoll = "authenticated" /\ onlyLoginBefore) => MLSuccess

\* C8 (amended): ManualLogin returns in the very poll in which the driver
\* reports an authenticated page and succeeds in no other poll; what it
\* returns in that poll is the result of SaveSession: nil exactly when the
\* cookies were read and the session file was written.
C8_DetectionReturnsSaveResult ==
    /\ MLSuccess => lastPoll = "authenticated"
    /\ lastPoll = "authenticated" =>
          /\ mlPc = "done"
          /\ lastSave # "none"
          /\ mlResult = NoErr <=> lastSave = "ok"
          /\ lastSave = "cookieerr" => mlResult = SaveErr("getcookies")
          /\ lastSave = "writeerr" => mlResult = SaveErr("writefile")
    /\ lastPoll \in {"login", "urlerr", "evalerr", "nomarker"} => lastSave = "none"

\* C8 witness: N = 2 login-URL polls, then an authenticated page: success on
\* poll 3.
C8_Witness ==
    /\ MLSuccess
    /\ onlyLoginBefore
    /\ lastPoll = "authenticated"
    /\ polls = 3

\* C9: ManualLogin returns the timeout error only once more than the ceiling
\* has elapsed; a call that entered the poll loop and never saw an
\* authenticated page ends with the timeout error; every poll takes at least
\* the check interval, so the number of polls is bounded by the ceiling.
C9_TimeoutAfterCeiling ==
    /\ mlResult = TimeoutErr => elapsed > MaxWaitTime
    /\ (mlPc = "done" /\ polls > 0 /\ lastPoll # "authenticated") => mlResult = TimeoutErr
    /\ elapsed >= polls * CheckInterval
    /\ (polls - 1) * CheckInterval <= MaxWaitTime

\* C9 witness: the driver never reported authentication and ManualLogin
\* returned the timeout error after the last poll the ceiling admits.
C9_Witness ==
    /\ mlPc = "done"
    /\ mlResult = TimeoutErr
    /\ lastPoll = "login"
    /\ (polls - 1) * CheckInterval = MaxWaitTime

\* C10 (as claimed): once the caller's context is cancelled ManualLogin runs
\* at most the poll that was under way and then stops.
C10_StopsAtNextPoll ==
    pollsAfterCancel <= 1

\* C16: whatever the outcome of a purchase attempt, the task's next step is
\* the select of the polling loop; a task stops only out of a navigation
\* attempt or after its select chose the cancellation; and every detection
\* of a selector invokes ExecutePurchase once more, with no memory of what
\* an earlier tick detected.
C16_IdempotentDetection ==
    [][\A i \in Streams :
         /\ (pc[i] \in {"purchasefailed", "purchaseok"} /\ pc'[i] # pc[i])
               => pc'[i] = "select"
         /\ (pc[i] # "stopped" /\ pc'[i] = "stopped")
               => pc[i] \in {"navigate", "stopping"}
         /\ (pc[i] = "stopping" /\ pc'[i] # "stopping") => CtxDone
         /\ (pc[i] = "evaluate" /\ pc'[i] = "purchase")
               => (execCalls[i] = 0 /\ execCalls'[i] = 1)
         /\ (pc[i] = "purchase" /\ pc'[i] # "purchase")
               => pc'[i] \in {"settle", "purchasefailed"}]_vars

\* C16 witness: stream 1 detected the first selector again after a failed
\* purchase on it, invoked ExecutePurchase again and this attempt succeeded.
C16_Witness ==
    /\ prevOutcome = "failed"
    /\ pc[1] = "purchaseok"
    /\ selIdx[1] = 1
    /\ execCalls[1] = 1
    /\ ~CtxDone

\* C17: NavigateWithRetry makes at most 3 attempts; the sleep after failed
\* attempt k lasts k seconds (1 s, then 2 s) and there is none after the
\* third; a successful attempt takes the task straight into polling; and a
\* task returns the navigation error exactly out of its third attempt,
\* without ever having entered polling.
C17_NavigationRetry ==
    [][\A i \in Streams :
         /\ navI'[i] \in 0..2
         /\ pc'[i] = "navsleep" => (navWait'[i] = navI'[i] + 1 /\ navI'[i] < 2)
         /\ (pc[i] = "navsleep" /\ pc'[i] = "navigate") => navI'[i] = navI[i] + 1
         /\ (pc[i] = "navigate" /\ pc'[i] = "navsleep") => navI'[i] = navI[i]
         /\ (pc[i] \notin LoopPcs /\ pc'[i] \in LoopPcs)
               => (pc[i] = "navigate" /\ pc'[i] = "select")
         /\ (pc[i] \in LoopPcs) => pc'[i] \in LoopPcs \cup {"stopped"}
         /\ (taskErr[i] = NoErr /\ taskErr'[i].kind = "navigate")
               => /\ pc[i] = "navigate"
                  /\ navI[i] = 2
                  /\ taskErr'[i] = NavErr(i)
                  /\ pc'[i] = "stopped"
         /\ (pc[i] = "navigate" /\ navI[i] = 2 /\ pc'[i] # "navigate")
               => pc'[i] \in {"select", "stopped"}]_vars

\* C17 witness: a task is in the 2 s sleep after its second failed attempt.
C17_Witness ==
    \E i \in Streams : pc[i] = "navsleep" /\ navI[i] = 1 /\ navWait[i] = 2

\* C18 (as claimed): once the cancellation signal of the stream tasks is
\* raised, a task in its navigation-retry phase starts no further navigation
\* attempt, and a task with a purchase in flight starts no further driver
\* call.
C18_NoDriverCallAfterCancel ==
    [][\A i \in Streams :
         /\ (CtxDone /\ pc[i] = "navsleep") => pc'[i] # "navigate"
         /\ (CtxDone /\ pc[i] \in {"purchase", "settle", "purchasefailed", "purchaseok"})
               => pc'[i] \notin (DriverPcs \ {pc[i]})]_vars

\* pcs at which Login is inside PerformLogin
PerformPcs == {"pnavigate", "pnavsleep", "plocation", "pform", "ptypeuser", "ptypepw",
               "pclick", "plocation2"}

\* C11: when LoadSession returned true and ValidateSession returned true,
\* Login goes to its return without entering the strategy selection, and it
\* returns nil with isLoggedIn = true, the cookies of the session file in
\* memory, and neither ManualLogin nor PerformLogin called.
C11_SessionReuse ==
    (loadResult = "true" /\ validResult = "true") =>
        /\ lgPc \in {"validated", "done"}
        /\ manualCalls = 0 /\ performCalls = 0
        /\ mlPc = "idle"
        /\ lastSave = "none"
        /\ cookies = sessionFile.cookies
        /\ lgPc = "done" => (lgResult = NoErr /\ isLoggedIn)

\* C11 witness: Login has returned nil on the session file's cookies.
C11_Witness ==
    /\ lgPc = "done"
    /\ loadResult = "true"
    /\ validResult = "true"
    /\ lgResult = NoErr
    /\ isLoggedIn
    /\ cookies = <<DriverCookie(1)>>

\* C12: Login calls at most one login path, at most once, and only after
\* LoadSession or ValidateSession returned false; the path is ManualLogin
\* when the username or the password is empty and PerformLogin when both are
\* set; and when Login did not reuse a session it returns what that one
\* call returned, an error included.
C12_FallbackStrategy ==
    /\ manualCalls + performCalls <= 1
    /\ manualCalls = 1 => (~hasUsername \/ ~hasPassword)
    /\ performCalls = 1 => (hasUsername /\ hasPassword)
    /\ manualCalls + performCalls = 1 => (loadResult = "false" \/ validResult = "false")
    /\ lgPc = "manual" <=> (manualCalls = 1 /\ lgPc # "done")
    /\ lgPc \in PerformPcs <=> (performCalls = 1 /\ lgPc # "done")
    /\ mlPc # "idle" => manualCalls = 1
    /\ (lgPc = "done" /\ (loadResult = "false" \/ validResult = "false")) =>
          /\ manualCalls + performCalls = 1
          /\ manualCalls = 1 => lgResult = mlResult
    /\ (lgPc = "done" /\ lgResult # NoErr) => manualCalls + performCalls = 1

\* C12 witness: only the username is configured, there is no session file,
\* ManualLogin timed out and Login returned that error after its single call.
C12_Witness ==
    /\ lgPc = "done"
    /\ hasUsername /\ ~hasPassword
    /\ loadSaw = "missing"
    /\ manualCalls = 1 /\ performCalls = 0
    /\ lgResult = TimeoutErr

\* C13 (as claimed): whenever isLoggedIn is true the in-memory cookie list
\* was validated against the live target or captured by a successful
\* SaveSession, and it is non-empty (unless the driver itself reported no
\* cookie to that SaveSession).
C13_AuthenticatedHasCookies ==
    isLoggedIn =>
        /\ validResult = "true" \/ lastSave = "ok"
        /\ cookies # <<>> \/ (lastSave = "ok" /\ sessionFile.cookies = <<>>)

\* C14: Monitor.Start is invoked only after Login returned nil; when Login
\* returned an error main leaves by log.Fatal (os.Exit(1)) and Start is not
\* invoked and no stream task exists.
C14_StartupOrdering ==
    /\ startPc # "idle" => (lgPc = "done" /\ lgResult = NoErr /\ mainPc = "waitsignal")
    /\ (\E i \in Streams : pc[i] # "idle") => startPc # "idle"
    /\ mainPc = "fatal" =>
          (lgPc = "done" /\ lgResult # NoErr /\ startPc = "idle"
             /\ \A i \in Streams : pc[i] = "idle")
    /\ (lgPc = "done" /\ lgResult # NoErr) => mainPc \in {"login", "fatal"}
    /\ mainPc = "waitsignal" => (lgPc = "done" /\ lgResult = NoErr)

\* C14 witness: PerformLogin succeeded, Login returned nil and the goroutine
\* has invoked Monitor.Start.
C14_Witness ==
    /\ startPc = "waiting"
    /\ performCalls = 1
    /\ lgResult = NoErr
    /\ mainPc = "waitsignal"

\* C15: after startup main never leaves by log.Fatal; an error returned by
\* Monitor.Start is logged by the goroutine and leaves main waiting for the
\* signal; main goes on to its cleanup and its return only after the
\* shutdown signal.
C15_MonitorErrorNotFatal ==
    /\ mainPc # "fatal"
    /\ mainPc \in {"cleanup", "stopped"} => rootCancelled
    /\ ~rootCancelled => mainPc = "waitsignal"
    /\ monitorLogged => (startPc = "returned" /\ startErr # NoErr)
    /\ (startPc = "returned" /\ startErr # NoErr /\ ~monitorLogged /\ ProcessRunning)
          => ENABLED MainLogError

\* C15 witness: Start returned a navigation error, it was logged, no signal
\* has arrived and main is still waiting for one.
C15_Witness ==
    /\ monitorLogged
    /\ startErr.cause = "navigate"
    /\ ~rootCancelled
    /\ mainPc = "waitsignal"

\* C19 (as claimed): on a missing, unreadable or malformed session file
\* (content json.Unmarshal rejects, or a list holding a null entry)
\* LoadSession neither crashes nor returns true: it returns false.
C19_LoadSessionNonFatal ==
    loadSaw \in {"missing", "unreadable", "malformed", "nullentry"} =>
        /\ lgPc # "panic"
        /\ loadResult # "true"
        /\ lgPc # "setcookies" => loadResult = "false"

\* C20: no step taken inside ValidateSession, its return with true or false
\* included, changes isLoggedIn, the in-memory cookies or the session file.
C20_ValidateSessionReadOnly ==
    [][(lgPc \in ValidatePcs) => UNCHANGED <<isLoggedIn, cookies, sessionFile, driverCookies>>]_vars

\* C20 witness: ValidateSession has just returned false and the loaded
\* cookies and the session file are still in place.
C20_Witness ==
    /\ lgPc = "strategy"
    /\ validResult = "false"
    /\ ~isLoggedIn
    /\ cookies = <<DriverCookie(1)>>
    /\ sessionFile = FileOf("list", <<DriverCookie(1)>>)

\* C21 (as claimed): when a call of the Manager has returned in which
\* ValidateSession returned false and no login path succeeded afterwards (no
\* SaveSession completed), the authenticated flag is not true.
C21_InvalidatedByFailedValidate ==
    (lgPc = "done" /\ validResult = "false" /\ lastSave # "ok") => ~isLoggedIn

\* C22 (as claimed): once Logout has returned ok the driver cookies are
\* cleared, the session file is gone, the authenticated flag is false and the
\* in-memory cookies are empty; once it has returned an error the call has
\* changed none of them.
C22_LogoutClearsSession ==
    (lgOp = "Logout" /\ lgPc = "done" /\ lgResult = NoErr)
        => /\ driverCookies = <<>>
           /\ ~sessionFile.exists
           /\ ~isLoggedIn
           /\ cookies = <<>>

\* C23: a RefreshSession whose ValidateSession returned true returns ok
\* without calling a login path and without changing the authenticated flag,
\* the in-memory cookies, the driver's cookie store or the session file; one
\* whose ValidateSession returned false calls PerformLogin exactly once and
\* returns what PerformLogin returned.
C23_RefreshSession ==
    [][(lgOp = "RefreshSession" /\ lgPc # "done") =>
         /\ lgOp' = "RefreshSession"
         /\ manualCalls' = 0
         /\ lgPc \in {"validated", "strategy"}
               => performCalls = 0 /\ performCalls' = (IF lgPc = "strategy" THEN 1 ELSE 0)
         /\ lgPc \notin {"validated", "strategy"} => performCalls' = performCalls
         /\ lgPc = "validated"
               => /\ lgPc' = "done"
                  /\ lgResult' = NoErr
                  /\ lastSave' = "none"
         /\ lgPc = "strategy" => lgPc' = "pnavigate"
         /\ performCalls' = 0
               => UNCHANGED <<isLoggedIn, cookies, driverCookies, sessionFile>>
         /\ (lgPc' = "done" /\ performCalls' = 1)
               => /\ lgPc \in PerformPcs
                  /\ lastSave' # "none" => lgResult' = SaveResult(lastSave')
                  /\ (lgResult' = NoErr) = (lastSave' = "ok")]_vars

\* C23 witness: a RefreshSession that found the session invalid has logged
\* in again through PerformLogin and returned ok.
C23_Witness ==
    /\ lgOp = "RefreshSession"
    /\ lgPc = "done"
    /\ validResult = "false"
    /\ performCalls = 1
    /\ lgResult = NoErr
    /\ isLoggedIn

\* C24: when the URL read after the navigation is off the login path,
\* PerformLogin returns the result of SaveSession without a step of the form;
\* otherwise it waits for the form, types the username, types the password
\* and clicks submit in this order, reads the URL again, and if that URL is
\* still on the login path it returns an error with no SaveSession call, the
\* authenticated flag false and the session file as it was.
C24_PerformLogin ==
    [][/\ (lgPc = "plocation" /\ lgPc' # lgPc /\ lgLoc' # LocErr)
             => IF ~Contains(lgLoc', LoginPath)
                THEN /\ lgPc' = "done"
                     /\ lastSave' # "none"
                     /\ lgResult' = SaveResult(lastSave')
                ELSE /\ lgPc' = "pform"
                     /\ lastSave' = "none"
       /\ \A k \in 1..Len(FormPcs) :
             (lgPc = FormPcs[k] /\ lgPc' # lgPc)
                 => /\ lastSave' = "none"
                    /\ \/ lgPc' = "done" /\ lgResult' # NoErr
                       \/ k < Len(FormPcs) /\ lgPc' = FormPcs[k + 1]
                       \/ k = Len(FormPcs) /\ lgPc' = "plocation2"
       /\ lgPc' = "plocation2" => lgPc \in {"pclick", "plocation2"}
       /\ (lgPc = "plocation2" /\ lgPc' # lgPc)
             => /\ lgPc' = "done"
                /\ IF lgLoc' = LocErr \/ Contains(lgLoc', LoginPath)
                   THEN /\ lgResult' # NoErr
                        /\ lastSave' = "none"
                        /\ ~isLoggedIn'
                        /\ UNCHANGED <<sessionFile, cookies>>
                   ELSE /\ lastSave' # "none"
                        /\ lgResult' = SaveResult(lastSave')]_vars

\* C24 witness: the form was submitted and the URL read afterwards is still
\* on the login path: PerformLogin returned the error and saved nothing.
C24_Witness ==
    /\ lgPc = "done"
    /\ performCalls = 1
    /\ lgLoc # LocErr
    /\ Contains(lgLoc, LoginPath)
    /\ lgResult = PerformErr("stillonloginpage")
    /\ lastSave = "none"
    /\ ~isLoggedIn
    /\ ~sessionFile.exists

\* the fields of a cookie that LoadSession hands to the driver
SixFields(c) == <<c.name, c.value, c.domain, c.path, c.httpOnly, c.secure>>
\* the last n cookies of the driver's store
StoreTail(store, n) == SubSeq(store, Len(store) - n + 1, Len(store))

\* C25 (as claimed): a LoadSession that found the file written by SaveSession
\* returns true.
C25_SavedFileAlwaysLoads ==
    (loadSaw = "list" /\ loadResult # "none") => loadResult = "true"

\* C25 (amended): a SaveSession that fails leaves the authenticated flag and
\* the session file alone, and one that succeeds has written the cookies it
\* read from the driver to the file when it sets the flag; a later LoadSession
\* of that file either returns true, and then the driver holds, in the order
\* of the file, one cookie per saved cookie with the same name, value,
\* domain, path, httpOnly and secure, and the in-memory cookies are those of
\* the file; or it returns false because the driver call failed, having set
\* fewer cookies than the file holds and leaving the in-memory cookies alone.
C25_SaveLoadRoundTrip ==
    [][/\ (lastSave = "none" /\ lastSave' \in {"cookieerr", "writeerr"})
             => UNCHANGED <<isLoggedIn, sessionFile>>
       /\ (lastSave = "none" /\ lastSave' = "ok")
             => /\ isLoggedIn'
                /\ sessionFile' = FileOf("list", cookies')
                /\ cookies' = driverCookies'
       /\ (lgPc = "setcookies" /\ lgPc' # lgPc)
             => LET saved == sessionFile.cookies
                    n == Len(saved)
                IN  /\ UNCHANGED sessionFile
                    /\ IF loadResult' = "true"
                       THEN /\ lgPc' = "vnavigate"
                            /\ cookies' = saved
                            /\ Len(driverCookies') >= n
                            /\ \A k \in 1..n :
                                  SixFields(StoreTail(driverCookies', n)[k])
                                      = SixFields(saved[k])
                       ELSE /\ loadResult' = "false"
                            /\ UNCHANGED cookies
                            /\ \E m \in 0..n :
                                  /\ m < n \/ n = 0
                                  /\ driverCookies' = PushAll(driverCookies, saved, m)]_vars

\* C25 witness: after a restart Login loaded the file SaveSession had written,
\* pushed its cookies into the driver as session cookies and reused the
\* session.
C25_Witness ==
    /\ lgOp = "Login"
    /\ lgPc = "done"
    /\ loadResult = "true"
    /\ validResult = "true"
    /\ isLoggedIn
    /\ Len(cookies) >= 1
    /\ cookies = sessionFile.cookies
    /\ Len(driverCookies) = Len(cookies)
    /\ \A k \in 1..Len(cookies) :
          /\ SixFields(driverCookies[k]) = SixFields(cookies[k])
          /\ driverCookies[k] # cookies[k]

\* the driver actions of a successful AddToCart
AddToCartOk == <<Step("waitvisible", "ok"), Step("click", "ok")>>

C27_CartCountNeverFails ==
    (exOp = "GetCartItemCount" /\ exPc = "done") =>
        /\ exErr = NoErr
        /\ exSteps[1][2] # "present" => exValue = 0

\* the steps of ClearCart, in order
CartOrder == <<"navigate">> \o CartClicks

\* C28: the driver actions of ClearCart are a prefix of navigate, select-all,
\* delete, confirm; no action follows one that failed; a failed action ends
\* the call with an error; and the call returns ok only after all four
\* succeeded.
C28_ClearCart ==
    exOp = "ClearCart" =>
        LET n == Len(exSteps)
            failed == n >= 1 /\ exSteps[n][2] = "fail"
        IN  /\ n <= Len(CartOrder)
            /\ \A k \in 1..n : exSteps[k][1] = CartOrder[k]
            /\ \A k \in 1..(n - 1) : exSteps[k][2] = "ok"
            /\ failed => (exPc = "done" /\ exErr.kind = "clearcart")
            /\ exPc = "done" => ((exErr = NoErr) <=> (n = Len(CartOrder) /\ ~failed))
            /\ (exPc = "done" /\ exErr # NoErr) => failed

\* C28 witness: select-all failed after the navigation: ClearCart returned
\* the error and neither delete nor confirm was clicked.
C28_Witness ==
    /\ exOp = "ClearCart"
    /\ exPc = "done"
    /\ exSteps = <<Step("navigate", "ok"), Step("selectall", "fail")>>
    /\ exErr = ExErr("clearcart", "selectall")

\* C29 (as claimed): CheckFlashSale and GetProductInfo return no error,
\* whatever the driver does, and CheckFlashSale reports no flash sale when
\* one of its driver calls failed.
C29_AuxReadsFailSilently ==
    (exOp \in {"CheckFlashSale", "GetProductInfo"} /\ exPc = "done") =>
        /\ exErr = NoErr
        /\ (exOp = "CheckFlashSale"
               /\ \E k \in 1..Len(exSteps) : exSteps[k][2] \in {"err", "fail"})
              => exValue = NoFlashSale

\* C30: with auto_checkout false, ExecutePurchase is never in the
\* proceed-to-checkout or place-order step and has made neither, in either
\* of its definitions and whether AddToCart succeeded or failed.
C30_TestModeAddsToCartOnly ==
    (exOp = "ExecutePurchase" /\ ~autoCheckout) =>
        /\ exPc \notin {"checkout", "placeorder"}
        /\ \A k \in 1..Len(exSteps) : exSteps[k][1] \notin {"checkout", "placeorder"}

\* C30 witness: the definition that knows the checkout, with auto_checkout
\* false, added the item to the cart and returned ok right after.
C30_Witness ==
    /\ execBuild = "executor.go"
    /\ ~autoCheckout
    /\ exOp = "ExecutePurchase"
    /\ exPc = "done"
    /\ exErr = NoErr
    /\ exSteps = AddToCartOk
    /\ exSlept = SettleDelay + HumanDelay

\* the evaluations and the purchase calls among the steps of a call
IsEvaluation(st) == st[1] = "evaluate"
IsPurchaseStep(st) == st[1] = "purchase"
\* number of ExecutePurchase calls the call has made so far
PurchasesStarted ==
    IF exPc = "cpapurchase" THEN 1 ELSE Len(SelectSeq(exSteps, IsPurchaseStep))

\* C31: in one call of checkProductAvailability the k-th driver evaluation
\* is that of the k-th selector; every evaluation before the last one did not
\* match; ExecutePurchase is called at most once, exactly when the last
\* evaluation matched and with the selector of that evaluation; after it no
\* selector is evaluated; and when no selector matched all five were
\* evaluated and no purchase was attempted.
C31_FirstMatchWins ==
    exOp = "checkProductAvailability" =>
        LET evs == SelectSeq(exSteps, IsEvaluation)
            n == Len(evs)
            matched == n >= 1 /\ evs[n][2] = "present"
        IN  /\ n <= NumSelectors
            /\ \A k \in 1..n : exSteps[k] = evs[k]
            /\ \A k \in 1..(n - 1) : evs[k][2] # "present"
            /\ exPc = "cpaevaluate" => (exSelector = n + 1 /\ ~matched)
            /\ PurchasesStarted <= 1
            /\ (PurchasesStarted = 1) <=> matched
            /\ matched => (exValue = n /\ exSelector = n)
            /\ ~matched => exValue = 0
            /\ (exPc = "done" /\ ~matched) => (n = NumSelectors /\ exErr = NoErr)

\* C31 witness: the first two selectors did not match (one evaluation
\* failed), the third matched and the purchase with it returned; the fourth
\* and fifth were not evaluated.
C31_Witness ==
    /\ exOp = "checkProductAvailability"
    /\ exPc = "done"
    /\ exValue = 3
    /\ exSteps = <<Step("evaluate", "err"), Step("evaluate", "absent"),
                   Step("evaluate", "present"), Step("purchase", "ok")>>

\* pcs at which the task is inside ExecutePurchase or has its result in hand
PurchasePcs == {"purchase", "settle", "purchasefailed", "purchaseok"}

\* C32: in every step and for every stream task: the check in progress has
\* made at most one ExecutePurchase call, and the task is in a purchase
\* attempt exactly when it has made one; a purchase attempt starts only from
\* the task's own detection; a detection starts only from the wait for the
\* next tick, never from a purchase attempt (a tick that arrives meanwhile is
\* buffered); a purchase attempt ends only by its result being reported, after
\* which the task waits for the next tick; and the task enters its poll loop
\* only by the step in which its own navigation succeeded (the tab then shows
\* its page).
C32_PerStreamSequencing ==
    [][\A i \in Streams :
          /\ execCalls'[i] <= 1
          /\ (pc'[i] \in PurchasePcs) <=> (execCalls'[i] = 1)
          /\ (pc'[i] = "purchase" /\ pc[i] # "purchase") => pc[i] = "evaluate"
          /\ (pc'[i] = "evaluate" /\ pc[i] # "evaluate")
                => (pc[i] \in {"select", "parked"} /\ selIdx'[i] = 1)
          /\ (pc[i] \in PurchasePcs /\ pc'[i] \notin PurchasePcs)
                => (pc[i] \in {"purchasefailed", "purchaseok"} /\ pc'[i] = "select")
          /\ (pc'[i] \in LoopPcs /\ pc[i] \notin LoopPcs)
                => (pc[i] = "navigate" /\ pc'[i] = "select" /\ tabPage' = i)
     ]_vars

\* C32 witness: stream 1 is in a second purchase attempt, after an earlier
\* one failed and polling was resumed, with a tick buffered meanwhile.
C32_Witness ==
    /\ prevOutcome = "failed"
    /\ pc[1] = "purchase"
    /\ tickPending[1]
    /\ execCalls[1] = 1

\* C36 (as claimed): while a stream task inspects the page for a purchasable
\* control or clicks it, the tab shows the page of that task's stream.
C36_DetectionOnOwnPage ==
    \A i \in Streams : pc[i] \in {"evaluate", "purchase"} => tabPage = i

\* C33 (as claimed): once Login has returned an error, through ManualLogin
\* or PerformLogin, the authenticated flag is false.
C33_LoginErrorMeansLoggedOut ==
    (lgOp = "Login" /\ lgPc = "done" /\ lgResult # NoErr) => ~isLoggedIn

\* C34: RetryPurchase never makes more than maxRetries attempts (none when
\* maxRetries <= 0, where it returns the exhaustion error at once, without a
\* wait); an attempt is in progress only while fewer than maxRetries were
\* made; it returns ok only when exactly one attempt succeeded, which is the
\* last one made, every attempt before it having failed and each of those
\* failures having been followed by one wait; and it returns the exhaustion
\* error only when no attempt succeeded.
C34_RetryEarlyStop ==
    /\ rpAttempts <= (IF maxRetries > 0 THEN maxRetries ELSE 0)
    /\ rpPc \in {"sleep", "exec", "settle"} => rpAttempts < maxRetries
    /\ (maxRetries <= 0 /\ rpPc # "idle") =>
          /\ rpPc = "done"
          /\ rpAttempts = 0
          /\ rpWaits = <<>>
          /\ rpResult = RpExhausted(maxRetries, 0)
    /\ rpPc = "settle" => (rpAttempts = rpFailures /\ Len(rpWaits) = rpFailures)
    /\ (rpPc = "done" /\ rpResult = RpOk) =>
          /\ rpAttempts = rpFailures + 1
          /\ Len(rpWaits) = rpFailures
          /\ rpLastErr = rpFailures
    /\ (rpPc = "done" /\ rpResult # RpOk) =>
          /\ rpResult.kind = "exhausted"
          /\ rpFailures = rpAttempts
    /\ rpPc # "done" => rpResult = RpNone

\* C34 witness: with maxRetries = 4 the second attempt succeeded:
\* RetryPurchase returned ok after two attempts and one wait.
C34_Witness ==
    /\ maxRetries = 4
    /\ rpPc = "done"
    /\ rpResult = RpOk
    /\ rpAttempts = 2
    /\ Len(rpWaits) = 1

\* C35 (as claimed): no stream task crashes when it creates its ticker, and
\* a task in its polling loop has a strictly positive tick interval.
C35_ValidTickInterval ==
    \A i \in Streams :
        /\ pc[i] # "panicked"
        /\ pc[i] \in LoopPcs => GetCheckInterval(checkInterval) > 0

\* C38 (as claimed): when the process has ended after a shutdown signal,
\* Monitor.Start is not still waiting for its tasks and no stream task is
\* navigating, polling or executing a purchase.
C38_ExitAfterStartReturned ==
    mainPc = "stopped" =>
        /\ startPc # "waiting"
        /\ \A i \in Streams : pc[i] \in {"idle", "stopped"}

\* C37 (as claimed): once the root cancellation signal is raised while
\* Monitor.Start waits for its stream tasks, every stream task eventually
\* returns and Monitor.Start eventually returns.
C37_TerminationUnderShutdown ==
    (rootCancelled /\ startPc = "waiting")
        ~> (startPc = "returned" /\ \A i \in Streams : pc[i] = "stopped")

\* C39 (as claimed): in the step in which LoadSession returns false, the
\* driver's cookie store and the Manager's in-memory cookies do not change.
C39_LoadSessionAllOrNothing ==
    [][(lgPc # "strategy" /\ lgPc' = "strategy" /\ loadResult' = "false")
          => (driverCookies' = driverCookies /\ cookies' = cookies)]_vars

\* C40 (as claimed): after a poll that failed to read the URL or to evaluate
\* the login markers, the first later poll that detects login makes
\* ManualLogin return success.
C40_ErrorPollThenSuccess ==
    (pollErrors = "seen" /\ lastPoll = "authenticated") => MLSuccess

\* C40 (amended): a poll whose URL read or marker evaluation failed is not
\* fatal: ManualLogin stays in the loop, not logged in, and leaves it after
\* such a poll only by the timeout error once the ceiling is exceeded or at the
\* first later poll that detects login, where it returns the result of
\* SaveSession: nil exactly when the session was saved.
C40_PollErrorsNotFatal ==
    /\ PollFailed(lastPoll) =>
          /\ ~isLoggedIn
          /\ \/ mlPc = "polling"
             \/ mlPc = "done" /\ mlResult = TimeoutErr /\ TimedOut(elapsed)
    /\ (pollErrors = "seen" /\ lastPoll = "authenticated") =>
          /\ mlPc = "done"
          /\ lastSave # "none"
          /\ mlResult = NoErr <=> lastSave = "ok"
    /\ (pollErrors = "seen" /\ mlPc = "done") =>
          \/ lastPoll = "authenticated"
          \/ mlResult = TimeoutErr /\ TimedOut(elapsed)

\* a URL-read failure and a marker-evaluation failure earlier in the call, then
\* login detected and saved: ManualLogin returned nil
C40_Witness ==
    /\ pollErrors = "seen"
    /\ polls >= 3
    /\ lastPoll = "authenticated"
    /\ MLSuccess

====
